---- MODULE Spec2Model ----
(***************************************************************************)
(* Instance identity and authentication lifecycle of the DAGMAR backend:   *)
(* registration, admin activation / revocation / deactivation / deletion,  *)
(* bearer-token issuance and verification, portal login, the CSRF guard of *)
(* the admin endpoints, profile merges, and the attendance table with its  *)
(* month locks.                                                            *)
(***************************************************************************)
EXTENDS Integers, Sequences, FiniteSets, Bags, TLC

(* ----------------------------- bounds --------------------------------- *)

\* Instance rows ever created (uuid4 ids are never reused).
MaxInstances == 2
\* Bearer tokens ever generated.
MaxTokens == 2
\* Password-reset links ever sent.
MaxResets == 1
\* Instance rows ever created where profiles are merged.
MaxMerged == 3
\* Instance rows ever created where one device meets a month lock.
MaxLocked == 1
\* Attendance PUTs that are between their SELECT and their commit at a time.
MaxWriters == 2
\* Portal password resets that are between their SELECT and their commit.
MaxResetters == 2
\* The clock advances in steps of TickHours hours up to MaxNow.
TickHours == 6
MaxNow == 31
\* Admin session cookies issued.
MaxCookies == 2

(* ------------------------ program constants --------------------------- *)

RESET_TTL_HOURS == 24

TOKEN_BYTES == 32
TOKEN_HUMAN_PREFIX == "dg_"
\* validate_token_format: len(TOKEN_HUMAN_PREFIX) + 16 <= len(token) <= 256
MinTokenPayload == 16
MaxTokenLen == 256

(* --------------------------- value spaces ----------------------------- *)

\* Python None for optional strings; optional ids and timestamps use 0.
None == "None"
NoId == 0

PENDING == "PENDING"
ACTIVE == "ACTIVE"
REVOKED == "REVOKED"
DEACTIVATED == "DEACTIVATED"
InstanceStatus == {PENDING, ACTIVE, REVOKED, DEACTIVATED}

ClientType == {"ANDROID", "WEB"}
\* The devices that register: their client types and fingerprints.
DeviceTypes == {"ANDROID"}
Fingerprints == {"fp1"}

\* display_name values a client or the admin can send ("  " is whitespace only).
NamesSent == {"Jana", "  "}

\* str.strip() on the strings of the model.
Strip(s) ==
    CASE s = "  " -> ""
      [] s = " tokA " -> "tokA"
      [] OTHER -> s

\* Python truthiness of an optional string.
Truthy(s) == s # None /\ s # ""

(* ------------------------------ state --------------------------------- *)

VARIABLES
    instances,     \* table "instances": id -> row, for the rows that exist
    idsUsed,       \* number of instance ids generated so far (uuid4)
    issued,        \* issued[n] = id of the instance the n-th generated token was returned to
    users,         \* table "portal_users": id -> row
    reset_tokens,  \* table "portal_user_reset_tokens": set of rows
    resetsSent,    \* number of reset links generated so far
    everRevoked,   \* history: ids of rows that have had status REVOKED
    recording,     \* whether the history variable is kept in this specification
    inflight,      \* a claim-token request between its checks and its commit
    resp,          \* the last request and its response: operation, path id, HTTP status,
                   \* token in the body, and what issue_instance_token_once did in it
    csrfReq,       \* the last request handed to require_csrf on its own
    csrfRes,       \* ... and the status it produced (0: passed)
    now,           \* wall clock, in hours
    attendance,    \* table "attendance": bag of rows (the surrogate key is left out)
    attendance_locks, \* table "attendance_locks": bag of rows
    shift_plan,    \* table "shift_plan": bag of rows
    capacity,      \* number of instance rows the deployment gets to create
    refusedPut,    \* history: the last attendance PUT that was answered 423
    writers,       \* attendance PUTs between their SELECT and their commit
    resets,        \* portal password resets between their SELECT and their commit
    cookies        \* admin session cookies: the browser's, those issued, those given up
                   \* at a logout, and the one on the last request behind require_admin

vars == <<instances, idsUsed, issued, users, reset_tokens, resetsSent,
          everRevoked, recording, inflight, resp, csrfReq, csrfRes, now,
          attendance, attendance_locks, shift_plan, capacity, refusedPut, writers,
          resets, cookies>>

Ids == DOMAIN instances

(* ------------------- tokens: app/security/tokens.py ------------------- *)

\* Length of unpadded base64url of n bytes.
_b64url_len(n) == (4 * n + 2) \div 3

\* A plaintext token: its prefix, its total length and its random body.
NoToken == [prefix |-> "", len |-> 0, body |-> 0]

\* generate_instance_token with secrets.token_bytes yielding the n-th fresh value.
generate_instance_token(n) ==
    [prefix |-> TOKEN_HUMAN_PREFIX,
     len    |-> Len(TOKEN_HUMAN_PREFIX) + _b64url_len(TOKEN_BYTES),
     body   |-> n]

\* Argon2 hash of a token under a salt; <<>> stands for a NULL column.
NoHash == <<>>
hash_token(token, salt) == <<"argon2", salt, token>>

\* A verification that only looks at the shape of the stored hash.
verify_token_any(token, stored_hash) == Len(stored_hash) = 3

verify_token(token, stored_hash) ==
    /\ Len(stored_hash) = 3
    /\ hash_token(token, stored_hash[2]) = stored_hash

validate_token_format(token) ==
    /\ token.prefix = TOKEN_HUMAN_PREFIX
    /\ token.len >= Len(TOKEN_HUMAN_PREFIX) + MinTokenPayload
    /\ token.len <= MaxTokenLen

\* The id of the instance a raw token verifies to, NoId for None.  Tokens are
\* hashed under distinct salts, so at most one row matches.
verify_instance_token(db, raw_token) ==
    IF ~validate_token_format(raw_token) THEN NoId
    ELSE LET cand == {i \in DOMAIN db : db[i].token_hash # NoHash
                                        /\ verify_token(raw_token, db[i].token_hash)}
         IN  IF cand = {} THEN NoId ELSE CHOOSE i \in cand : TRUE

\* An issue-once that issues whether or not the row holds a token.
issue_instance_token_always(instance, n, at) ==
    [instance |-> [instance EXCEPT !.token_hash = hash_token(generate_instance_token(n), n),
                                   !.token_issued_at = at],
     token |-> generate_instance_token(n)]

\* Returns the row after the call and the plaintext (NoToken for None).  n is
\* the number of the fresh random value, at the reading of datetime.now(UTC);
\* the handlers pass now + n: the clock has moved on since the last token.
issue_instance_token_once(instance, n, at) ==
    IF instance.token_hash # NoHash
    THEN [instance |-> instance, token |-> NoToken]
    ELSE [instance |-> [instance EXCEPT !.token_hash = hash_token(generate_instance_token(n), n),
                                        !.token_issued_at = at],
          token |-> generate_instance_token(n)]

\* A rotation that hands out a new token and leaves the stored hash alone.
rotate_without_store(instance, n, at) ==
    [instance |-> instance, token |-> generate_instance_token(n)]

rotate_instance_token(instance, n, at) ==
    [instance |-> [instance EXCEPT !.token_hash = hash_token(generate_instance_token(n), n),
                                   !.token_issued_at = at],
     token |-> generate_instance_token(n)]

(* ------------------- CSRF: app/security/csrf.py ----------------------- *)

SafeMethods == {"GET", "HEAD", "OPTIONS"}
Methods == SafeMethods \cup {"POST", "PUT", "DELETE", "PATCH"}

\* The Starlette session of a request: empty, or a dict that may hold csrf_token.
EmptySession == [empty |-> TRUE, csrf_token |-> None]
Sessions == {EmptySession}
            \cup {[empty |-> FALSE, csrf_token |-> t] : t \in {None, "tokA", "tokB"}}

\* Values a client can put into the header, the mirror cookie or the form field.
CsrfValues == {None, "", "  ", "tokA", " tokA ", "tokB"}

\* A comparison that accepts any two strings.
_always_eq(a, b) == TRUE

_constant_time_eq(a, b) == a = b

\* Header first, then the cookie "dagmar_csrf_token"; "" when the header holds
\* only whitespace; None when neither is set.
extract_csrf_token(request) ==
    IF Truthy(request.header) THEN Strip(request.header)
    ELSE IF Truthy(request.cookie) THEN Strip(request.cookie)
    ELSE None

\* The value read from the form field: (form.get("csrf_token") or "").strip() or None
FormToken(request) ==
    IF Truthy(request.form) /\ Truthy(Strip(request.form)) THEN Strip(request.form)
    ELSE None

\* The token the guard compares with the session's: header, else cookie, else form.
ProvidedToken(request) ==
    IF Truthy(extract_csrf_token(request)) THEN extract_csrf_token(request)
    ELSE FormToken(request)

\* 0 when the dependency returns, 403 when it raises CsrfError.
require_csrf(request) ==
    IF request.method \in SafeMethods THEN 0
    ELSE IF request.session.empty THEN 403
    ELSE IF ~Truthy(request.session.csrf_token) THEN 403
    ELSE IF ~Truthy(ProvidedToken(request)) THEN 403
    ELSE IF ~_constant_time_eq(ProvidedToken(request), request.session.csrf_token) THEN 403
    ELSE 0

Requests ==
    [method : Methods, username : {None, "admin"}, session : Sessions,
     header : CsrfValues, cookie : CsrfValues, form : CsrfValues]

(* ------------------ admin session: app/api/deps.py -------------------- *)

\* AdminSession.is_authenticated of the session decoded from the request's cookie.
is_authenticated(request) == Truthy(request.username)

\* 0 when require_admin returns the session, 401 when it raises.
require_admin(request) == IF is_authenticated(request) THEN 0 ELSE 401

\* The dependencies of a guarded admin endpoint, in declaration order.
AdminGuard(request) ==
    IF require_admin(request) # 0 THEN require_admin(request)
    ELSE require_csrf(request)

\* Requests the admin endpoints are driven with: an admin session with the
\* matching or a wrong CSRF token, and no admin session.
AdminRequests(method) ==
    [method : {method}, username : {"admin"},
     session : {[empty |-> FALSE, csrf_token |-> "tokA"]},
     header : {"tokA", "tokB"}, cookie : {None}, form : {None}]
    \cup [method : {method}, username : {None},
          session : {[empty |-> FALSE, csrf_token |-> "tokA"]},
          header : {"tokA"}, cookie : {None}, form : {None}]

(* --------------------------- responses -------------------------------- *)

NoOnce == [called |-> FALSE, before |-> NoHash, after |-> NoHash,
           before_at |-> 0, after_at |-> 0, ret |-> NoToken]

\* detail is the "code" of a structured error body and days the body of an
\* attendance GET; found counts the rows the handler's SELECT for an existing
\* row returned and moved the rows it handed to another instance.
Response(op, id, code) ==
    [op |-> op, id |-> id, code |-> code, token |-> NoToken,
     csrf |-> FALSE, once |-> NoOnce, detail |-> None, days |-> {},
     found |-> 0, moved |-> 0]

\* What issue_instance_token_once was called on and what it did.
OnceOf(row, r) ==
    [called |-> TRUE, before |-> row.token_hash, after |-> r.instance.token_hash,
     before_at |-> row.token_issued_at, after_at |-> r.instance.token_issued_at,
     ret |-> r.token]

(* ---------------------------- rows ------------------------------------ *)

NewInstance(client_type, device_fingerprint, status, display_name) ==
    [client_type |-> client_type, device_fingerprint |-> device_fingerprint,
     status |-> status, display_name |-> display_name, profile_instance_id |-> NoId,
     token_hash |-> NoHash, token_issued_at |-> 0]

\* No claim-token request is between its checks and its commit.
NoFlight == [id |-> NoId, seen |-> << >>]

\* INSERT of a row under a fresh id / UPDATE of a row / DELETE of rows.
Insert(table, id, row) == [i \in DOMAIN table \cup {id} |-> IF i = id THEN row ELSE table[i]]
Update(table, id, row) == [table EXCEPT ![id] = row]
Delete(table, ids) == [i \in DOMAIN table \ ids |-> table[i]]

(* ------ dates and times: datetime.date, app/utils/timeparse.py -------- *)

\* The text of a date as a client writes it: the numbers its three digit
\* groups spell and the separator between the groups.
DateText(year, month, day, sep) == [year |-> year, month |-> month, day |-> day, sep |-> sep]

\* A datetime.date; NoDate stands for a raised ValueError.
Date(year, month, day) == [year |-> year, month |-> month, day |-> day]
NoDate == Date(0, 0, 0)

IsLeap(year) == (year % 4 = 0 /\ year % 100 # 0) \/ year % 400 = 0

days_in_month(year, month) ==
    IF month = 2 THEN (IF IsLeap(year) THEN 29 ELSE 28)
    ELSE IF month \in {4, 6, 9, 11} THEN 30
    ELSE 31

\* The three numbers name a day of the calendar.
IsCalendarDay(year, month, day) ==
    /\ year \in 1..9999
    /\ month \in 1..12
    /\ day \in 1..days_in_month(year, month)

\* datetime.date.fromisoformat: YYYY-MM-DD and, since Python 3.11, YYYYMMDD.
fromisoformat(text) ==
    IF text.sep \in {"-", ""} /\ IsCalendarDay(text.year, text.month, text.day)
    THEN Date(text.year, text.month, text.day)
    ELSE NoDate

\* parse_yyyy_mm_dd: the regular expression ^\d{4}-\d{2}-\d{2}$, then strptime.
parse_yyyy_mm_dd(text) ==
    IF text.sep # "-" THEN NoDate
    ELSE IF ~IsCalendarDay(text.year, text.month, text.day) THEN NoDate
    ELSE Date(text.year, text.month, text.day)

\* datetime.date.isoformat
isoformat(date) == DateText(date.year, date.month, date.day, "-")

\* The text of a time: JSON null, a string of blanks, or the numbers that the
\* two digit groups around the colon spell.
NullTime == [text |-> "null", hh |-> 0, mm |-> 0]
BlankTime == [text |-> "blank", hh |-> 0, mm |-> 0]
HHMM(hh, mm) == [text |-> "hh:mm", hh |-> hh, mm |-> mm]

\* What normalize_hhmm_or_none yields when it raises TimeParseError.
TimeParseError == [text |-> "TimeParseError", hh |-> 0, mm |-> 0]

\* _TIME_RE: ^(?:[01]\d|2[0-3]):[0-5]\d$
is_valid_hhmm(value) ==
    \/ value = NullTime
    \/ value.text = "hh:mm" /\ value.hh \in 0..23 /\ value.mm \in 0..59

normalize_hhmm_or_none(value) ==
    IF value = NullTime THEN NullTime
    ELSE IF value = BlankTime THEN NullTime
    ELSE IF ~is_valid_hhmm(value) THEN TimeParseError
    ELSE value

parse_hhmm_or_none(value) == normalize_hhmm_or_none(value)

(* ------------- attendance tables: app/db/models.py -------------------- *)

AttendanceRow(instance_id, date, arrival_time, departure_time) ==
    [instance_id |-> instance_id, date |-> date,
     arrival_time |-> arrival_time, departure_time |-> departure_time]

AttendanceLock(instance_id, year, month) ==
    [instance_id |-> instance_id, year |-> year, month |-> month]

\* The rows of a table, and those of them a WHERE clause selects.
RowsAt(table, instance_id, date) ==
    {r \in BagToSet(table) : r.instance_id = instance_id /\ r.date = date}

LocksAt(table, instance_id, year, month) ==
    {r \in BagToSet(table) : r = AttendanceLock(instance_id, year, month)}

\* The number of rows of a table that a set of distinct rows stands for.
RECURSIVE Copies(_, _)
Copies(table, rows) ==
    IF rows = {} THEN 0
    ELSE LET r == CHOOSE x \in rows : TRUE
         IN  CopiesIn(r, table) + Copies(table, rows \ {r})

\* uq_attendance_instance_date and uq_attendance_lock_instance_month.
uq_attendance_instance_date(table) ==
    \A r \in BagToSet(table) : Copies(table, RowsAt(table, r.instance_id, r.date)) = 1

uq_shift_plan_instance_date(table) ==
    \A r \in BagToSet(table) : Copies(table, RowsAt(table, r.instance_id, r.date)) = 1

uq_attendance_lock_instance_month(table) ==
    \A r \in BagToSet(table) : CopiesIn(r, table) = 1

\* INSERT of one row, DELETE of one row, DELETE of every row a set stands for.
InsertRow(table, row) == table (+) SetToBag({row})
DeleteRow(table, row) == table (-) SetToBag({row})
DeleteRows(table, rows) == [r \in BagToSet(table) \ rows |-> table[r]]

\* No attendance PUT has been answered 423 / is between SELECT and commit.
NoPut == [instance_id |-> NoId, date |-> NoDate, arrival_time |-> NullTime,
          departure_time |-> NullTime, stage |-> "none"]
NoWriters == << >>

\* The sequence without its k-th element.
Without(seq, k) == SubSeq(seq, 1, k - 1) \o SubSeq(seq, k + 1, Len(seq))

\* No cookie of the name: request.cookies.get(...) is None.
\* A cookie value is its text split at the first ".": the payload the first
\* part decodes to and the signature that follows.
NoPayload == [json |-> "undecodable", u |-> None, iat |-> 0]
NoSig == [mac |-> "garbage", payload |-> NoPayload, secret |-> None]
NoCookie == [text |-> "none", payload |-> NoPayload, sig |-> NoSig]

(* ----------------------------- Init ----------------------------------- *)

\* The state after create_app(): empty tables, nothing answered yet.
Constructed ==
    /\ instances = << >>
    /\ idsUsed = 0
    /\ issued = << >>
    /\ users = << >>
    /\ reset_tokens = {}
    /\ resetsSent = 0
    /\ everRevoked = {}
    /\ inflight = NoFlight
    /\ resp = Response("none", NoId, 0)
    /\ now = 1
    /\ attendance = EmptyBag
    /\ attendance_locks = EmptyBag
    /\ shift_plan = EmptyBag
    /\ refusedPut = NoPut
    /\ writers = NoWriters
    /\ resets = << >>
    /\ cookies = [browser |-> NoCookie, issued |-> {}, left |-> {},
                  presented |-> NoCookie, at |-> 0]

\* No request has been handed to require_csrf on its own.
NoCsrfRun ==
    /\ csrfReq = [method |-> "GET", username |-> None, session |-> EmptySession,
                  header |-> None, cookie |-> None, form |-> None]
    /\ csrfRes = 0

Init == Constructed /\ NoCsrfRun /\ recording = FALSE /\ capacity = MaxInstances

\* The same start with the history of revocations recorded.
InitHistory == Constructed /\ NoCsrfRun /\ recording = TRUE /\ capacity = MaxInstances

\* Variables no whole-request handler touches.
UnchangedOther ==
    UNCHANGED <<csrfReq, csrfRes, now, recording, inflight, capacity, refusedPut, writers, resets, cookies>>
UnchangedAttendance == UNCHANGED <<attendance, attendance_locks, shift_plan>>
UnchangedUsers == UNCHANGED <<users, reset_tokens, resetsSent>>

(* ------------- device endpoints: app/api/v1/instances.py -------------- *)

\* Rows of a (client_type, device_fingerprint) pair, newest first: ids grow
\* with created_at.
RowsOf(client_type, device_fingerprint) ==
    {i \in Ids : /\ instances[i].client_type = client_type
                 /\ instances[i].device_fingerprint = device_fingerprint}

Newest(S) == CHOOSE i \in S : \A j \in S : j <= i

\* POST /api/v1/instances/register
register_instance(client_type, device_fingerprint, payload_name) ==
    LET display_name == IF Truthy(payload_name) THEN Strip(payload_name) ELSE None
        rows == RowsOf(client_type, device_fingerprint)
        reusable == {i \in rows : instances[i].status \in {ACTIVE, PENDING}}
    IN  /\ UNCHANGED <<issued, everRevoked>>
        /\ UnchangedUsers /\ UnchangedOther /\ UnchangedAttendance
        /\ IF ~Truthy(display_name)
           THEN /\ resp' = Response("register", NoId, 400)
                /\ UNCHANGED <<instances, idsUsed>>
           ELSE IF \E i \in rows : instances[i].status = DEACTIVATED
           THEN /\ resp' = Response("register", NoId, 403)
                /\ UNCHANGED <<instances, idsUsed>>
           ELSE IF reusable # {}
           THEN LET id == Newest(reusable) IN
                /\ instances' = Update(instances, id,
                                       [instances[id] EXCEPT !.display_name = display_name])
                /\ resp' = Response("register", id, 200)
                /\ UNCHANGED idsUsed
           ELSE /\ idsUsed < capacity
                /\ idsUsed' = idsUsed + 1
                /\ instances' = Insert(instances, idsUsed + 1,
                                       NewInstance(client_type, device_fingerprint,
                                                   PENDING, display_name))
                /\ resp' = Response("register", idsUsed + 1, 200)

RegisterInstance ==
    \E ct \in DeviceTypes, fp \in Fingerprints, name \in {"Jana", None} :
        register_instance(ct, fp, name)

\* GET /api/v1/instances/{instance_id}/status
get_status(instance_id) ==
    /\ UNCHANGED <<idsUsed, issued, everRevoked>>
    /\ UnchangedUsers /\ UnchangedOther /\ UnchangedAttendance
    /\ IF instance_id \notin Ids
       THEN /\ resp' = Response("status", NoId, 404)
            /\ UNCHANGED instances
       ELSE LET inst == instances[instance_id] IN
            /\ resp' = Response("status", NoId, 200)
            /\ IF inst.status = ACTIVE /\ ~Truthy(inst.display_name)
               THEN instances' = Update(instances, instance_id,
                                        [inst EXCEPT !.display_name = "Zarizeni"])
               ELSE UNCHANGED instances

GetStatus == \E id \in 1..idsUsed : get_status(id)

\* POST /api/v1/instances/{instance_id}/claim-token
claim_token(instance_id) ==
    /\ UNCHANGED <<idsUsed, everRevoked>>
    /\ UnchangedUsers /\ UnchangedOther /\ UnchangedAttendance
    /\ IF instance_id \notin Ids
       THEN /\ resp' = Response("claim-token", NoId, 404)
            /\ UNCHANGED <<instances, issued>>
       ELSE LET inst == instances[instance_id]
                n == Len(issued) + 1
                once == issue_instance_token_once(inst, n, now + n)
                done == IF once.token = NoToken
                        THEN rotate_instance_token(once.instance, n, now + n)
                        ELSE once
            IN  IF inst.status # ACTIVE
                THEN /\ resp' = Response("claim-token", instance_id, 403)
                     /\ UNCHANGED <<instances, issued>>
                ELSE IF ~Truthy(inst.display_name)
                THEN /\ resp' = Response("claim-token", instance_id, 409)
                     /\ UNCHANGED <<instances, issued>>
                ELSE /\ Len(issued) < MaxTokens
                     /\ instances' = Update(instances, instance_id, done.instance)
                     /\ issued' = Append(issued, instance_id)
                     /\ resp' = [Response("claim-token", instance_id, 200)
                                    EXCEPT !.token = done.token,
                                           !.once = OnceOf(inst, once)]

ClaimToken == \E id \in 1..idsUsed : claim_token(id)

(* --------- device endpoints: app/api/v1/public_instances.py ----------- *)

\* POST /api/v1/instances/register
public_register_instance(client_type, device_fingerprint, payload_name) ==
    /\ idsUsed < capacity
    /\ idsUsed' = idsUsed + 1
    /\ instances' = Insert(instances, idsUsed + 1,
                           NewInstance(client_type, Strip(device_fingerprint), PENDING,
                                       IF Truthy(payload_name) THEN Strip(payload_name)
                                                               ELSE None))
    /\ resp' = Response("register", idsUsed + 1, 200)
    /\ UNCHANGED <<issued, everRevoked>>
    /\ UnchangedUsers /\ UnchangedOther /\ UnchangedAttendance

PublicRegisterInstance ==
    \E ct \in DeviceTypes, fp \in Fingerprints, name \in {"Jana"} :
        public_register_instance(ct, fp, name)

\* POST /api/v1/instances/{instance_id}/claim-token
claim_instance_token(instance_id) ==
    /\ UNCHANGED <<idsUsed, everRevoked>>
    /\ UnchangedUsers /\ UnchangedOther /\ UnchangedAttendance
    /\ IF instance_id \notin Ids
       THEN /\ resp' = Response("claim-token", NoId, 404)
            /\ UNCHANGED <<instances, issued>>
       ELSE LET inst == instances[instance_id]
                done == rotate_instance_token(inst, Len(issued) + 1, now + Len(issued) + 1)
            IN  IF inst.status # ACTIVE
                THEN /\ resp' = Response("claim-token", instance_id, 409)
                     /\ UNCHANGED <<instances, issued>>
                ELSE /\ Len(issued) < MaxTokens
                     /\ instances' = Update(instances, instance_id, done.instance)
                     /\ issued' = Append(issued, instance_id)
                     /\ resp' = [Response("claim-token", instance_id, 200)
                                    EXCEPT !.token = done.token]

ClaimInstanceToken == \E id \in 1..idsUsed : claim_instance_token(id)

(* ---------------- bearer auth: app/api/deps.py ------------------------ *)

\* An Authorization header: its scheme and the rest; NoAuth when absent.
NoAuth == [scheme |-> "", token |-> NoToken]

Lower(s) == IF s = "Bearer" THEN "bearer" ELSE s

\* The bearer token of the header, NoToken for None.
_bearer_from_auth_header(authorization) ==
    IF authorization = NoAuth THEN NoToken
    ELSE IF Lower(authorization.scheme) # "bearer" THEN NoToken
    ELSE authorization.token

\* A bearer check that forgets the status of the instance it found.
require_instance_auth_any_status(db, authorization) ==
    LET token == _bearer_from_auth_header(authorization)
    IN  IF token = NoToken THEN 401
        ELSE IF verify_instance_token(db, token) = NoId THEN 401
        ELSE 200

\* The HTTP status of require_instance_auth (200: the instance is returned).
require_instance_auth(db, authorization) ==
    LET token == _bearer_from_auth_header(authorization)
        instance == verify_instance_token(db, token)
    IN  IF token = NoToken THEN 401
        ELSE IF instance = NoId THEN 401
        ELSE IF db[instance].status # ACTIVE THEN 403
        ELSE 200

\* Tokens a client can present: every token generated so far, a well-formed one
\* that was never issued (body 0), and malformed variants of an issued one.
PresentedTokens ==
    {generate_instance_token(n) : n \in 0..Len(issued)}
    \cup {[generate_instance_token(1) EXCEPT !.prefix = "xx_"],
          [generate_instance_token(1) EXCEPT !.len = 18]}

Authorizations ==
    {NoAuth, [scheme |-> "Basic", token |-> generate_instance_token(1)]}
    \cup [scheme : {"Bearer"}, token : PresentedTokens \cup {NoToken}]

\* A request to an endpoint that depends on require_instance.
BearerAuth ==
    \E authorization \in Authorizations :
        LET token == _bearer_from_auth_header(authorization)
            code == require_instance_auth(instances, authorization)
        IN  /\ resp' = Response("auth", verify_instance_token(instances, token), code)
            /\ UNCHANGED <<instances, idsUsed, issued, everRevoked>>
            /\ UnchangedUsers /\ UnchangedOther /\ UnchangedAttendance

(* ---------- admin endpoints: app/api/v1/admin_instances.py ------------ *)

\* The response of a guarded endpoint whose dependencies raised; nothing is written.
Refused(request) ==
    /\ resp' = [Response("admin", NoId, AdminGuard(request))
                    EXCEPT !.csrf = (require_csrf(request) = 0)]
    /\ UNCHANGED <<instances, idsUsed, issued, everRevoked>>
    /\ UnchangedUsers /\ UnchangedOther /\ UnchangedAttendance

\* The response of a guarded endpoint whose handler ran.
Handled(code) == [Response("admin", NoId, code) EXCEPT !.csrf = TRUE]

\* POST /api/v1/admin/instances/{instance_id}/activate
activate_instance(instance_id, payload_name) ==
    /\ UNCHANGED <<idsUsed, issued, everRevoked>>
    /\ UnchangedUsers /\ UnchangedOther /\ UnchangedAttendance
    /\ IF instance_id \notin Ids
       THEN /\ resp' = Handled(404)
            /\ UNCHANGED instances
       ELSE LET inst == instances[instance_id] IN
            IF inst.status = REVOKED
            THEN /\ resp' = Handled(409)
                 /\ UNCHANGED instances
            ELSE /\ instances' = Update(instances, instance_id,
                                        [inst EXCEPT !.display_name = Strip(payload_name),
                                                     !.status = ACTIVE])
                 /\ resp' = Handled(200)

ActivateInstance ==
    \E request \in AdminRequests("POST") :
        IF AdminGuard(request) # 0 THEN Refused(request)
        ELSE \E id \in 1..idsUsed, name \in NamesSent : activate_instance(id, name)

\* POST /api/v1/admin/instances/{instance_id}/rename
rename_instance(instance_id, payload_name) ==
    /\ UNCHANGED <<idsUsed, issued, everRevoked>>
    /\ UnchangedUsers /\ UnchangedOther /\ UnchangedAttendance
    /\ IF instance_id \notin Ids
       THEN /\ resp' = Handled(404)
            /\ UNCHANGED instances
       ELSE LET inst == instances[instance_id] IN
            IF inst.status # ACTIVE
            THEN /\ resp' = Handled(409)
                 /\ UNCHANGED instances
            ELSE /\ instances' = Update(instances, instance_id,
                                        [inst EXCEPT !.display_name = Strip(payload_name)])
                 /\ resp' = Handled(200)

RenameInstance ==
    \E request \in AdminRequests("POST") :
        IF AdminGuard(request) # 0 THEN Refused(request)
        ELSE \E id \in 1..idsUsed, name \in NamesSent : rename_instance(id, name)

\* The row as revoke_instance writes it: REVOKED, token columns NULL.
RevokedRow(inst) ==
    [inst EXCEPT !.status = REVOKED, !.token_hash = NoHash, !.token_issued_at = 0]

\* POST /api/v1/admin/instances/{instance_id}/revoke
revoke_instance(instance_id) ==
    /\ UNCHANGED <<idsUsed, issued>>
    /\ UnchangedUsers /\ UnchangedOther /\ UnchangedAttendance
    /\ IF instance_id \notin Ids
       THEN /\ resp' = Handled(404)
            /\ UNCHANGED <<instances, everRevoked>>
       ELSE LET inst == instances[instance_id] IN
            /\ instances' = Update(instances, instance_id, RevokedRow(inst))
            /\ everRevoked' = IF recording THEN everRevoked \cup {instance_id}
                              ELSE everRevoked
            /\ resp' = Handled(200)

RevokeInstance ==
    \E request \in AdminRequests("POST") :
        IF AdminGuard(request) # 0 THEN Refused(request)
        ELSE \E id \in 1..idsUsed : revoke_instance(id)

\* A deactivation that forgets the token columns.
deactivated_with_token(inst) == [inst EXCEPT !.status = DEACTIVATED]

\* A deactivation that forgets the stored hash.
deactivated_keeps_hash(inst) ==
    [inst EXCEPT !.status = DEACTIVATED, !.token_issued_at = 0]

\* The row as deactivate_instance writes it: DEACTIVATED, token columns NULL.
DeactivatedRow(inst) ==
    [inst EXCEPT !.status = DEACTIVATED, !.token_hash = NoHash, !.token_issued_at = 0]

\* POST /api/v1/admin/instances/{instance_id}/deactivate
deactivate_instance(instance_id) ==
    /\ UNCHANGED <<idsUsed, issued, everRevoked>>
    /\ UnchangedUsers /\ UnchangedOther /\ UnchangedAttendance
    /\ IF instance_id \notin Ids
       THEN /\ resp' = Handled(404)
            /\ UNCHANGED instances
       ELSE LET inst == instances[instance_id] IN
            /\ instances' = Update(instances, instance_id, DeactivatedRow(inst))
            /\ resp' = Handled(200)

DeactivateInstance ==
    \E request \in AdminRequests("POST") :
        IF AdminGuard(request) # 0 THEN Refused(request)
        ELSE \E id \in 1..idsUsed : deactivate_instance(id)

\* The path segment "pending" of DELETE /api/v1/admin/instances/pending.
PendingPath == -1

\* A DELETE under which the rows that reference a deleted profile are deleted
\* with it (ON DELETE CASCADE on instances.profile_instance_id).
DeleteInstancesCascade(gone) ==
    LET all == gone \cup {i \in Ids : instances[i].profile_instance_id \in gone} IN
    /\ instances' = [i \in Ids \ all |-> instances[i]]
    /\ users' = [u \in DOMAIN users |->
                    IF users[u].instance_id \in all
                    THEN [users[u] EXCEPT !.instance_id = NoId]
                    ELSE users[u]]
    /\ everRevoked' = everRevoked \ all
    /\ attendance' = DeleteRows(attendance,
                                {r \in BagToSet(attendance) : r.instance_id \in all})
    /\ attendance_locks' = DeleteRows(attendance_locks,
                                      {r \in BagToSet(attendance_locks) : r.instance_id \in all})
    /\ shift_plan' = DeleteRows(shift_plan,
                                {r \in BagToSet(shift_plan) : r.instance_id \in all})

\* DELETE of instance rows with the foreign keys' ON DELETE SET NULL applied to
\* instances.profile_instance_id and portal_users.instance_id, and their
\* ON DELETE CASCADE applied to attendance, attendance_locks and shift_plan.
DeleteInstances(gone) ==
    /\ instances' = [i \in Ids \ gone |->
                        IF instances[i].profile_instance_id \in gone
                        THEN [instances[i] EXCEPT !.profile_instance_id = NoId]
                        ELSE instances[i]]
    /\ users' = [u \in DOMAIN users |->
                    IF users[u].instance_id \in gone
                    THEN [users[u] EXCEPT !.instance_id = NoId]
                    ELSE users[u]]
    /\ everRevoked' = everRevoked \ gone
    /\ attendance' = DeleteRows(attendance,
                                {r \in BagToSet(attendance) : r.instance_id \in gone})
    /\ attendance_locks' = DeleteRows(attendance_locks,
                                      {r \in BagToSet(attendance_locks) : r.instance_id \in gone})
    /\ shift_plan' = DeleteRows(shift_plan,
                                {r \in BagToSet(shift_plan) : r.instance_id \in gone})

\* DELETE /api/v1/admin/instances/{instance_id}.  The route is declared before
\* DELETE /instances/pending, so a request for "pending" is dispatched here too.
delete_instance(instance_id) ==
    /\ UNCHANGED <<idsUsed, issued, reset_tokens, resetsSent>>
    /\ UnchangedOther
    /\ IF instance_id = PendingPath
       THEN /\ DeleteInstances({i \in Ids : instances[i].status = PENDING})
            /\ resp' = Handled(200)
       ELSE IF instance_id \notin Ids
       THEN /\ resp' = Handled(404)
            /\ UNCHANGED <<instances, users, everRevoked>>
            /\ UnchangedAttendance
       ELSE /\ DeleteInstances({instance_id})
            /\ resp' = Handled(200)

DeleteInstance ==
    \E request \in AdminRequests("DELETE") :
        IF AdminGuard(request) # 0 THEN Refused(request)
        ELSE \E id \in (1..idsUsed) \cup {PendingPath} : delete_instance(id)

(* ------------- portal users: app/api/v1/admin_users.py ---------------- *)

Emails == {"jana@hotel"}
Roles == {"employee", "manager"}
PortalUserRole == {"employee"}
Passwords == {"heslo-123"}

\* passlib hash of a password under a salt, and its verification.
hash_password(password, salt) == <<"argon2", salt, password>>

verify_password(password, password_hash) ==
    /\ Len(password_hash) = 3
    /\ hash_password(password, password_hash[2]) = password_hash

\* sha256 hex digest of a reset token.
sha256(raw_token) == <<"sha256", raw_token>>

UserIds == DOMAIN users
UsersWithEmail(email) == {u \in UserIds : users[u].email = email}

\* POST /api/v1/admin/users
create_user(payload_name, payload_email, payload_role) ==
    /\ UNCHANGED <<issued, everRevoked, reset_tokens, resetsSent>>
    /\ UnchangedOther /\ UnchangedAttendance
    /\ IF payload_role \notin PortalUserRole
       THEN /\ resp' = Handled(400)
            /\ UNCHANGED <<instances, idsUsed, users>>
       ELSE IF UsersWithEmail(payload_email) # {}
       THEN /\ resp' = Handled(409)
            /\ UNCHANGED <<instances, idsUsed, users>>
       ELSE LET inst_id == idsUsed + 1
                user_id == Cardinality(UserIds) + 1
            IN  /\ idsUsed < capacity
                /\ idsUsed' = inst_id
                /\ instances' = Insert(instances, inst_id,
                                       NewInstance("WEB", "user:" \o ToString(inst_id),
                                                   ACTIVE, Strip(payload_name)))
                /\ users' = Insert(users, user_id,
                                   [email |-> payload_email, role |-> payload_role,
                                    password_hash |-> NoHash, is_active |-> TRUE,
                                    instance_id |-> inst_id])
                /\ resp' = Handled(200)

CreateUser ==
    \E request \in AdminRequests("POST") :
        IF AdminGuard(request) # 0 THEN Refused(request)
        ELSE \E name \in {"Jana"}, email \in Emails, role \in Roles : create_user(name, email, role)

\* POST /api/v1/admin/users/{user_id}/send-reset.  The row is committed before
\* the mail is sent; a failed send answers 400.
send_reset_link(user_id, smtp_ok) ==
    /\ UNCHANGED <<instances, idsUsed, issued, everRevoked, users>>
    /\ UnchangedOther /\ UnchangedAttendance
    /\ IF user_id \notin UserIds \/ ~users[user_id].is_active
       THEN /\ resp' = Handled(404)
            /\ UNCHANGED <<reset_tokens, resetsSent>>
       ELSE /\ resetsSent < MaxResets
            /\ resetsSent' = resetsSent + 1
            /\ reset_tokens' = reset_tokens \cup
                   {[user_id |-> user_id, token_hash |-> sha256(resetsSent + 1),
                     expires_at |-> now + RESET_TTL_HOURS, used_at |-> 0]}
            /\ resp' = Handled(IF smtp_ok THEN 200 ELSE 400)

SendResetLink ==
    \E request \in AdminRequests("POST") :
        IF AdminGuard(request) # 0 THEN Refused(request)
        ELSE \E user_id \in 1..1, smtp_ok \in BOOLEAN : send_reset_link(user_id, smtp_ok)

(* ---------------- portal: app/api/v1/portal_auth.py ------------------- *)

\* Requests of a portal user who has no session and sends no CSRF token.
PortalRequests(method) ==
    [method : {method}, username : {None}, session : {EmptySession},
     header : {None}, cookie : {None}, form : {None}]

PortalError(op, code) ==
    /\ resp' = Response(op, NoId, code)
    /\ UNCHANGED <<instances, idsUsed, issued, everRevoked>>
    /\ UnchangedUsers /\ UnchangedOther /\ UnchangedAttendance

\* POST /api/v1/portal/login
portal_login(payload_email, payload_password, request) ==
    LET found == UsersWithEmail(Strip(payload_email)) IN
    IF found = {} THEN PortalError("portal-login", 401)
    ELSE LET user == users[CHOOSE u \in found : TRUE] IN
         IF ~user.is_active \/ user.password_hash = NoHash
         THEN PortalError("portal-login", 401)
         ELSE IF user.role \notin PortalUserRole
         THEN PortalError("portal-login", 403)
         ELSE IF ~verify_password(payload_password, user.password_hash)
         THEN PortalError("portal-login", 401)
         ELSE IF user.instance_id = NoId
         THEN PortalError("portal-login", 409)
         ELSE IF user.instance_id \notin Ids \/ instances[user.instance_id].status # ACTIVE
         THEN PortalError("portal-login", 403)
         ELSE LET inst == instances[user.instance_id]
                  n == Len(issued) + 1
                  once == issue_instance_token_once(inst, n, now + n)
                  done == IF once.token = NoToken
                          THEN rotate_instance_token(once.instance, n, now + n)
                          ELSE once
              IN  /\ Len(issued) < MaxTokens
                  /\ instances' = Update(instances, user.instance_id, done.instance)
                  /\ issued' = Append(issued, user.instance_id)
                  /\ resp' = [Response("portal-login", user.instance_id, 200)
                                 EXCEPT !.token = done.token, !.once = OnceOf(inst, once),
                                        !.csrf = (require_csrf(request) = 0)]
                  /\ UNCHANGED <<idsUsed, everRevoked>>
                  /\ UnchangedUsers /\ UnchangedOther /\ UnchangedAttendance

PortalLogin ==
    \E email \in Emails \cup {"nobody@hotel"}, password \in Passwords \cup {"wrong-pass"},
       request \in PortalRequests("POST") :
        portal_login(email, password, request)

\* POST /api/v1/portal/reset; raw_token is the number of the reset link, 0 for
\* a token that was never sent.
portal_reset(raw_token, payload_password, request) ==
    LET rows == {r \in reset_tokens : /\ r.token_hash = sha256(raw_token)
                                      /\ r.used_at = 0
                                      /\ r.expires_at > now}
    IN  IF rows = {} \/ (CHOOSE r \in rows : TRUE).user_id \notin UserIds
        THEN PortalError("portal-reset", 400)
        ELSE LET row == CHOOSE r \in rows : TRUE IN
             /\ users' = Update(users, row.user_id,
                                [users[row.user_id] EXCEPT
                                    !.password_hash = hash_password(payload_password, raw_token)])
             /\ reset_tokens' = (reset_tokens \ {row}) \cup {[row EXCEPT !.used_at = now]}
             /\ resp' = [Response("portal-reset", NoId, 200)
                            EXCEPT !.csrf = (require_csrf(request) = 0)]
             /\ UNCHANGED <<instances, idsUsed, issued, everRevoked, resetsSent>>
             /\ UnchangedOther /\ UnchangedAttendance

PortalReset ==
    \E raw_token \in 0..resetsSent, password \in Passwords, request \in PortalRequests("POST") :
        portal_reset(raw_token, password, request)

\* Time passes.
Tick ==
    /\ now < MaxNow
    /\ now' = now + TickHours
    /\ UNCHANGED <<instances, idsUsed, issued, everRevoked, resp>>
    /\ UNCHANGED <<csrfReq, csrfRes, recording, inflight, capacity, refusedPut,
                   writers, resets, cookies>>
    /\ UnchangedUsers /\ UnchangedAttendance

\* portal_reset as two steps of a request that runs beside others: up to its
\* SELECT of the token row, and its commit.

\* The passwords the users choose at a reset.
NewPasswords == {"heslo-123", "nove-heslo"}

\* POST /api/v1/portal/reset up to the SELECT: no usable row answers 400 at
\* once, else the request goes on with the row it has loaded and its reading
\* of the clock.
portal_reset_read(raw_token, payload_password) ==
    LET rows == {r \in reset_tokens : /\ r.token_hash = sha256(raw_token)
                                      /\ r.used_at = 0
                                      /\ r.expires_at > now}
    IN  /\ UNCHANGED <<instances, idsUsed, issued, everRevoked>>
        /\ UNCHANGED <<csrfReq, csrfRes, now, recording, inflight, capacity,
                       refusedPut, writers, cookies>>
        /\ UnchangedUsers /\ UnchangedAttendance
        /\ IF rows = {} \/ (CHOOSE r \in rows : TRUE).user_id \notin UserIds
           THEN /\ resp' = Response("portal-reset", NoId, 400)
                /\ UNCHANGED resets
           ELSE /\ Len(resets) < MaxResetters
                /\ resets' = Append(resets, [raw_token |-> raw_token,
                                              password |-> payload_password,
                                              row |-> CHOOSE r \in rows : TRUE,
                                              at |-> now])
                /\ UNCHANGED resp

PortalResetRead ==
    \E raw_token \in 0..resetsSent, password \in NewPasswords :
        portal_reset_read(raw_token, password)

\* db.commit() of the k-th reset in flight: an UPDATE of the user's
\* password_hash and an UPDATE of the token row's used_at, both by primary
\* key, whatever the token row holds by now.
portal_reset_commit(k) ==
    LET w == resets[k]
        current == {r \in reset_tokens : /\ r.user_id = w.row.user_id
                                         /\ r.token_hash = w.row.token_hash}
    IN  /\ UNCHANGED <<instances, idsUsed, issued, everRevoked, resetsSent>>
        /\ UNCHANGED <<csrfReq, csrfRes, now, recording, inflight, capacity,
                       refusedPut, writers, cookies>>
        /\ UnchangedAttendance
        /\ resets' = Without(resets, k)
        /\ users' = Update(users, w.row.user_id,
                           [users[w.row.user_id] EXCEPT
                               !.password_hash = hash_password(w.password, w.raw_token)])
        /\ reset_tokens' = (reset_tokens \ current)
                               \cup {[r EXCEPT !.used_at = w.at] : r \in current}
        /\ resp' = Response("portal-reset", NoId, 200)

PortalResetCommit == \E k \in 1..Len(resets) : portal_reset_commit(k)

(* ------------ admin session cookie: app/security/sessions.py --------- *)

session_secret == "session-secret"

\* Settings.session_max_age_seconds
session_max_age_seconds == 60 * 60 * 12

\* The clock of the model counts hours.
Seconds(hours) == hours * 3600

\* HMAC-SHA256 of the payload under the secret, base64url: ASCII text that
\* only the same payload and secret produce.
_sign(payload, secret) == [mac |-> "hs256", payload |-> payload, secret |-> secret]

\* json.dumps({"u": username, "iat": issued_at})
SessionPayload(username, issued_at) ==
    [json |-> "object", u |-> username, iat |-> issued_at]

\* The cookie value set_admin_session issues.
set_admin_session(username, time) ==
    [text |-> "dotted", payload |-> SessionPayload(username, time),
     sig |-> _sign(SessionPayload(username, time), session_secret)]

\* Payloads a client can send: bytes that are no UTF-8 text, text that is no
\* JSON, JSON that is no object, an object with an empty and one with the
\* admin's username.
PayloadsSent ==
    {NoPayload,
     [json |-> "not-json", u |-> None, iat |-> 0],
     [json |-> "array", u |-> None, iat |-> 0],
     SessionPayload("", 0),
     SessionPayload("admin", 0)}

\* Signatures a client can send with a payload: the MAC under the session
\* secret or under another one, ASCII text that is no MAC, and text with a
\* character outside ASCII.
SigsSent(payload) ==
    {_sign(payload, session_secret),
     _sign(payload, "other-secret"),
     NoSig,
     [mac |-> "non-ascii", payload |-> NoPayload, secret |-> None]}

\* Cookie values a client can build without having been issued them.
CookiesSent ==
    {[text |-> "no-dot", payload |-> NoPayload, sig |-> NoSig]}
    \cup UNION {{[text |-> "dotted", payload |-> p, sig |-> g] : g \in SigsSent(p)} :
                  p \in PayloadsSent}

Unauthenticated(issued_at) ==
    [username |-> None, issued_at |-> issued_at, raised |-> FALSE]

\* get_admin_session with a server-side list of sessions that have logged out.
get_admin_session_revocable(raw, time) ==
    IF raw \in cookies.left THEN Unauthenticated(time)
    ELSE IF raw.text = "none" THEN Unauthenticated(time)
    ELSE IF raw.text = "no-dot" THEN Unauthenticated(time)
    ELSE IF raw.payload.json = "undecodable" THEN Unauthenticated(time)
    ELSE IF raw.sig.mac = "non-ascii"
         THEN [username |-> None, issued_at |-> time, raised |-> TRUE]
    ELSE IF raw.sig # _sign(raw.payload, session_secret) THEN Unauthenticated(time)
    ELSE IF raw.payload.json # "object" THEN Unauthenticated(time)
    ELSE IF ~Truthy(raw.payload.u) THEN Unauthenticated(raw.payload.iat)
    ELSE IF Seconds(time - raw.payload.iat) > session_max_age_seconds
         THEN Unauthenticated(raw.payload.iat)
    ELSE [username |-> raw.payload.u, issued_at |-> raw.payload.iat, raised |-> FALSE]

\* The session the cookie value raw stands for at the given time.  The split,
\* the base64 and UTF-8 decoding and the reading of the JSON are inside try
\* blocks; hmac.compare_digest is not, and raises TypeError when the
\* signature text holds a character outside ASCII.
get_admin_session(raw, time) ==
    IF raw.text = "none" THEN Unauthenticated(time)
    ELSE IF raw.text = "no-dot" THEN Unauthenticated(time)
    ELSE IF raw.payload.json = "undecodable" THEN Unauthenticated(time)
    ELSE IF raw.sig.mac = "non-ascii"
         THEN [username |-> None, issued_at |-> time, raised |-> TRUE]
    ELSE IF raw.sig # _sign(raw.payload, session_secret) THEN Unauthenticated(time)
    ELSE IF raw.payload.json # "object" THEN Unauthenticated(time)
    ELSE IF ~Truthy(raw.payload.u) THEN Unauthenticated(raw.payload.iat)
    ELSE IF Seconds(time - raw.payload.iat) > session_max_age_seconds
         THEN Unauthenticated(raw.payload.iat)
    ELSE [username |-> raw.payload.u, issued_at |-> raw.payload.iat, raised |-> FALSE]

\* The status of a request to an endpoint that depends on require_admin alone:
\* 500 from the handler of unhandled exceptions, 401 from require_admin,
\* else 200.
AdminStatus(raw, time) ==
    IF get_admin_session(raw, time).raised THEN 500
    ELSE IF require_admin(get_admin_session(raw, time)) # 0 THEN 401
    ELSE 200

UnchangedButCookies ==
    /\ UNCHANGED <<instances, idsUsed, issued, everRevoked>>
    /\ UNCHANGED <<csrfReq, csrfRes, now, recording, inflight, capacity,
                   refusedPut, writers, resets>>
    /\ UnchangedUsers /\ UnchangedAttendance

\* Credentials sent to the login; the configured pair is admin / heslo-123.
LoginNames == {"", "admin", "eva"}
LoginPasswords == {"heslo-123", "spatne-heslo"}

\* POST /api/v1/admin/login with an admin account configured.
admin_login(username, password) ==
    /\ UnchangedButCookies
    /\ IF ~Truthy(username) \/ ~Truthy(password)
       THEN resp' = Response("admin-login", NoId, 400) /\ UNCHANGED cookies
       ELSE IF ~(username = "admin" /\ password = "heslo-123")
       THEN resp' = Response("admin-login", NoId, 401) /\ UNCHANGED cookies
       ELSE /\ Cardinality(cookies.issued \cup {set_admin_session("admin", now)})
                   <= MaxCookies
            /\ cookies' = [cookies EXCEPT
                               !.browser = set_admin_session("admin", now),
                               !.issued = @ \cup {set_admin_session("admin", now)}]
            /\ resp' = Response("admin-login", NoId, 200)

AdminLogin ==
    \E username \in LoginNames, password \in LoginPasswords :
        admin_login(username, password)

\* POST /api/v1/admin/logout: the response deletes the browser's cookie.
admin_logout ==
    /\ UnchangedButCookies
    /\ cookies' = [cookies EXCEPT
                       !.browser = NoCookie,
                       !.left = IF cookies.browser = NoCookie THEN @
                                ELSE @ \cup {cookies.browser}]
    /\ resp' = Response("admin-logout", NoId, 200)

AdminLogout == admin_logout

\* A request to an endpoint behind require_admin with the browser's cookie,
\* a copy of a cookie issued earlier, or a value the client has built.
RequireAdmin ==
    \E raw \in {cookies.browser} \cup cookies.issued \cup CookiesSent :
        /\ UnchangedButCookies
        /\ cookies' = [cookies EXCEPT !.presented = raw, !.at = now]
        /\ resp' = Response("require-admin", NoId, AdminStatus(raw, now))

(* ------------- attendance: app/api/v1/attendance.py ------------------- *)

\* Bodies the devices and the admin send: two days in different months with
\* two arrivals, and three bodies that are not well formed: a date that is no
\* day of the calendar, a date without separators, an hour out of range.
DatesSent == {DateText(2026, 2, 20, "-"), DateText(2026, 3, 1, "-")}
ArrivalsSent == {HHMM(8, 0), HHMM(9, 30)}
DeparturesSent == {HHMM(16, 0)}
Bodies ==
    [date : DatesSent, arrival_time : ArrivalsSent, departure_time : DeparturesSent]
    \cup [date : {DateText(2026, 99, 99, "-"), DateText(2026, 2, 20, "")},
          arrival_time : {HHMM(8, 0)}, departure_time : DeparturesSent]
    \cup [date : {DateText(2026, 2, 20, "-")},
          arrival_time : {HHMM(99, 0)}, departure_time : DeparturesSent]

\* The Authorization headers the devices send with attendance requests: none,
\* or a token that claim-token has handed out.
Credentials ==
    {NoAuth} \cup [scheme : {"Bearer"},
                   token : {generate_instance_token(n) : n \in 1..Len(issued)}]

\* The months the admin locks, unlocks and the devices read.
YearsSent == {2026}
MonthsSent == {2}

\* A lock check that finds no month locked.
_is_locked_never(table, instance_id, year, month) == FALSE

_is_locked(table, instance_id, year, month) == LocksAt(table, instance_id, year, month) # {}

\* The upsert both PUT handlers end with: UPDATE of the row found, or INSERT.
Upserted(table, instance_id, day, arrival, departure) ==
    LET existing == RowsAt(table, instance_id, day) IN
    IF existing = {}
    THEN InsertRow(table, AttendanceRow(instance_id, day, arrival, departure))
    ELSE InsertRow(DeleteRows(table, existing),
                   AttendanceRow(instance_id, day, arrival, departure))

\* The history of the month-lock scenario: a PUT answered 423 is remembered,
\* and marked when the same PUT is later carried out.
Remember(instance_id, body, code) ==
    LET put == [instance_id |-> instance_id, date |-> fromisoformat(body.date),
                arrival_time |-> body.arrival_time,
                departure_time |-> body.departure_time, stage |-> "refused"]
    IN  IF ~recording THEN refusedPut
        ELSE IF code = 423 THEN put
        ELSE IF code = 200 /\ refusedPut = put THEN [put EXCEPT !.stage = "repeated"]
        ELSE refusedPut

\* Variables the attendance handlers leave alone.
UnchangedInstances ==
    /\ UNCHANGED <<instances, idsUsed, issued, everRevoked>>
    /\ UNCHANGED <<csrfReq, csrfRes, now, recording, inflight, capacity, writers, resets, cookies>>
    /\ UNCHANGED shift_plan
    /\ UnchangedUsers

\* PUT /api/v1/attendance.  A ValueError of the date or time parsing is not an
\* HTTPException: it reaches unhandled_exception_handler, which answers 500.
upsert_attendance(authorization, body) ==
    LET auth == require_instance_auth(instances, authorization)
        inst == verify_instance_token(instances, _bearer_from_auth_header(authorization))
        day == fromisoformat(body.date)
        arrival == parse_hhmm_or_none(body.arrival_time)
        departure == parse_hhmm_or_none(body.departure_time)
        code == IF auth # 200 THEN auth
                ELSE IF day = NoDate THEN 500
                ELSE IF _is_locked(attendance_locks, inst, day.year, day.month) THEN 423
                ELSE IF TimeParseError \in {arrival, departure} THEN 500
                ELSE IF Copies(attendance, RowsAt(attendance, inst, day)) > 1 THEN 500
                ELSE 200
    IN  /\ UnchangedInstances
        /\ UNCHANGED attendance_locks
        /\ resp' = [Response("attendance-put", IF auth = 200 THEN inst ELSE NoId, code)
                       EXCEPT !.detail = IF code = 423 THEN "ATTENDANCE_MONTH_LOCKED" ELSE None]
        /\ attendance' = IF code = 200
                         THEN Upserted(attendance, inst, day, arrival, departure)
                         ELSE attendance
        /\ refusedPut' = Remember(inst, body, code)

UpsertAttendance ==
    \E authorization \in Credentials, body \in Bodies :
        upsert_attendance(authorization, body)

\* The body of a month: one entry per day of the month, with the times of the
\* day's row or nulls.
MonthDays(table, instance_id, year, month) ==
    {LET day == Date(year, month, d)
         rows == RowsAt(table, instance_id, day)
         r == CHOOSE x \in rows : TRUE
     IN  [date |-> isoformat(day),
          arrival_time |-> IF rows = {} THEN NullTime ELSE r.arrival_time,
          departure_time |-> IF rows = {} THEN NullTime ELSE r.departure_time]
     : d \in 1..days_in_month(year, month)}

\* GET /api/v1/attendance
get_month_attendance(authorization, year, month) ==
    LET auth == require_instance_auth(instances, authorization)
        inst == verify_instance_token(instances, _bearer_from_auth_header(authorization))
        code == IF auth # 200 THEN auth
                ELSE IF _is_locked(attendance_locks, inst, year, month) THEN 423
                ELSE 200
    IN  /\ UnchangedInstances /\ UnchangedAttendance
        /\ UNCHANGED refusedPut
        /\ resp' = [Response("attendance-get", IF auth = 200 THEN inst ELSE NoId, code)
                       EXCEPT !.detail = IF code = 423 THEN "ATTENDANCE_MONTH_LOCKED" ELSE None,
                              !.days = IF code = 200
                                       THEN MonthDays(attendance, inst, year, month)
                                       ELSE {}]

GetMonthAttendance ==
    \E authorization \in Credentials, year \in YearsSent, month \in MonthsSent :
        get_month_attendance(authorization, year, month)

\* upsert_attendance as two steps of a request that runs beside others: up to
\* its SELECT of the existing row, and its commit.

\* The request after its SELECT: the key, the values to store and the row
\* the session loaded (none: the session holds a new row to INSERT).
Writer(instance_id, day, arrival, departure, existing) ==
    [instance_id |-> instance_id, date |-> day, arrival_time |-> arrival,
     departure_time |-> departure, existing |-> existing]

\* PUT /api/v1/attendance up to the SELECT: the checks answer at once, else
\* the request goes on with what it has read.
upsert_attendance_read(authorization, body) ==
    LET auth == require_instance_auth(instances, authorization)
        inst == verify_instance_token(instances, _bearer_from_auth_header(authorization))
        day == fromisoformat(body.date)
        arrival == parse_hhmm_or_none(body.arrival_time)
        departure == parse_hhmm_or_none(body.departure_time)
        existing == RowsAt(attendance, inst, day)
        code == IF auth # 200 THEN auth
                ELSE IF day = NoDate THEN 500
                ELSE IF _is_locked(attendance_locks, inst, day.year, day.month) THEN 423
                ELSE IF TimeParseError \in {arrival, departure} THEN 500
                ELSE IF Copies(attendance, existing) > 1 THEN 500
                ELSE 200
    IN  /\ UNCHANGED <<instances, idsUsed, issued, everRevoked>>
        /\ UNCHANGED <<csrfReq, csrfRes, now, recording, inflight, capacity, resets, cookies>>
        /\ UnchangedUsers /\ UnchangedAttendance
        /\ UNCHANGED refusedPut
        /\ IF code # 200
           THEN /\ resp' = [Response("attendance-put", IF auth = 200 THEN inst ELSE NoId, code)
                               EXCEPT !.detail = IF code = 423
                                                 THEN "ATTENDANCE_MONTH_LOCKED" ELSE None]
                /\ UNCHANGED writers
           ELSE /\ Len(writers) < MaxWriters
                /\ writers' = Append(writers,
                                     Writer(inst, day, arrival, departure, existing))
                /\ UNCHANGED resp

UpsertAttendanceRead ==
    \E authorization \in Credentials, body \in Bodies :
        upsert_attendance_read(authorization, body)

\* db.commit() of the k-th request in flight.  A new row is INSERTed: when
\* the key is taken by now, uq_attendance_instance_date raises IntegrityError
\* (500, nothing written).  A loaded row is UPDATEd by primary key with the
\* columns whose value differs from the loaded one; no differing column, no
\* UPDATE.
upsert_attendance_commit(k) ==
    LET w == writers[k]
        current == RowsAt(attendance, w.instance_id, w.date)
        loaded == CHOOSE r \in w.existing : TRUE
        row == CHOOSE r \in current : TRUE
        changed == loaded.arrival_time # w.arrival_time
                   \/ loaded.departure_time # w.departure_time
        written == [row EXCEPT
                       !.arrival_time = IF loaded.arrival_time # w.arrival_time
                                        THEN w.arrival_time ELSE @,
                       !.departure_time = IF loaded.departure_time # w.departure_time
                                          THEN w.departure_time ELSE @]
        code == IF w.existing = {}
                THEN IF current # {} THEN 500 ELSE 200
                ELSE IF changed /\ current = {} THEN 500 ELSE 200
    IN  /\ UNCHANGED <<instances, idsUsed, issued, everRevoked>>
        /\ UNCHANGED <<csrfReq, csrfRes, now, recording, inflight, capacity, resets, cookies>>
        /\ UnchangedUsers
        /\ UNCHANGED <<attendance_locks, shift_plan, refusedPut>>
        /\ writers' = Without(writers, k)
        /\ resp' = Response("attendance-put", w.instance_id, code)
        /\ attendance' =
              IF code # 200 THEN attendance
              ELSE IF w.existing = {}
              THEN InsertRow(attendance, AttendanceRow(w.instance_id, w.date,
                                                       w.arrival_time, w.departure_time))
              ELSE IF changed
              THEN InsertRow(DeleteRows(attendance, current), written)
              ELSE attendance

UpsertAttendanceCommit == \E k \in 1..Len(writers) : upsert_attendance_commit(k)

(* ---------- admin attendance: app/api/v1/admin_attendance.py ---------- *)

\* The response of an admin attendance endpoint whose handler ran.
Answered(op, id, code) == [Response(op, id, code) EXCEPT !.csrf = TRUE]

\* PUT /api/v1/admin/attendance
admin_upsert_attendance(body) ==
    LET day == parse_yyyy_mm_dd(body.date)
        arrival == parse_hhmm_or_none(body.arrival_time)
        departure == parse_hhmm_or_none(body.departure_time)
        code == IF body.instance_id \notin Ids THEN 404
                ELSE IF day = NoDate THEN 400
                ELSE IF TimeParseError \in {arrival, departure} THEN 400
                ELSE IF Copies(attendance, RowsAt(attendance, body.instance_id, day)) > 1
                THEN 500
                ELSE 200
    IN  /\ UnchangedInstances
        /\ UNCHANGED <<attendance_locks, refusedPut>>
        /\ resp' = Answered("admin-put", body.instance_id, code)
        /\ attendance' = IF code = 200
                         THEN Upserted(attendance, body.instance_id, day, arrival, departure)
                         ELSE attendance

AdminUpsertAttendance ==
    \E request \in AdminRequests("PUT") :
        IF AdminGuard(request) # 0 THEN Refused(request)
        ELSE \E id \in 1..idsUsed, body \in Bodies :
                admin_upsert_attendance([instance_id |-> id, date |-> body.date,
                                         arrival_time |-> body.arrival_time,
                                         departure_time |-> body.departure_time])

\* A lock_month that inserts a row whether or not the month is locked.
lock_month_always(instance_id, year, month) ==
    /\ UnchangedInstances
    /\ UNCHANGED <<attendance, refusedPut>>
    /\ instance_id \in Ids
    /\ resp' = Answered("lock", instance_id, 200)
    /\ attendance_locks' = InsertRow(attendance_locks,
                                     AttendanceLock(instance_id, year, month))

\* POST /api/v1/admin/attendance/lock
lock_month(instance_id, year, month) ==
    LET existing == LocksAt(attendance_locks, instance_id, year, month) IN
    /\ UnchangedInstances
    /\ UNCHANGED <<attendance, refusedPut>>
    /\ IF instance_id \notin Ids
       THEN /\ resp' = Answered("lock", instance_id, 404)
            /\ UNCHANGED attendance_locks
       ELSE IF Copies(attendance_locks, existing) > 1
       THEN /\ resp' = Answered("lock", instance_id, 500)
            /\ UNCHANGED attendance_locks
       ELSE /\ resp' = [Answered("lock", instance_id, 200)
                           EXCEPT !.found = Copies(attendance_locks, existing)]
            /\ attendance_locks' =
                   IF existing = {}
                   THEN InsertRow(attendance_locks, AttendanceLock(instance_id, year, month))
                   ELSE attendance_locks

LockMonth ==
    \E request \in AdminRequests("POST") :
        IF AdminGuard(request) # 0 THEN Refused(request)
        ELSE \E id \in 1..idsUsed, year \in YearsSent, month \in MonthsSent :
                lock_month(id, year, month)

\* The dependencies of unlock_month, in declaration order: require_csrf first.
UnlockGuard(request) ==
    IF require_csrf(request) # 0 THEN require_csrf(request)
    ELSE require_admin(request)

\* POST /api/v1/admin/attendance/unlock
unlock_month(instance_id, year, month) ==
    LET existing == LocksAt(attendance_locks, instance_id, year, month) IN
    /\ UnchangedInstances
    /\ UNCHANGED <<attendance, refusedPut>>
    /\ IF instance_id \notin Ids
       THEN /\ resp' = Answered("unlock", instance_id, 404)
            /\ UNCHANGED attendance_locks
       ELSE IF Copies(attendance_locks, existing) > 1
       THEN /\ resp' = Answered("unlock", instance_id, 500)
            /\ UNCHANGED attendance_locks
       ELSE /\ resp' = [Answered("unlock", instance_id, 200)
                           EXCEPT !.found = Copies(attendance_locks, existing)]
            /\ attendance_locks' =
                   IF existing = {}
                   THEN attendance_locks
                   ELSE DeleteRow(attendance_locks, AttendanceLock(instance_id, year, month))

UnlockMonth ==
    \E request \in AdminRequests("POST") :
        IF UnlockGuard(request) # 0
        THEN /\ resp' = [Response("admin", NoId, UnlockGuard(request))
                            EXCEPT !.csrf = (require_csrf(request) = 0)]
             /\ UnchangedInstances /\ UnchangedAttendance
             /\ UNCHANGED refusedPut
        ELSE \E id \in 1..idsUsed, year \in YearsSent, month \in MonthsSent :
                unlock_month(id, year, month)

(* ------------ shift plan: app/api/v1/admin_shift_plan.py -------------- *)

\* The bodies the admin and the devices send for one day, times null, blank
\* or set.
DayBodies ==
    [date : {DateText(2026, 2, 20, "-")},
     arrival_time : {NullTime, BlankTime, HHMM(8, 0)},
     departure_time : {NullTime, HHMM(16, 0)}]

\* A shift-plan upsert that stores a row also when both times are null.
PlanUpsertedKeepsEmpty(table, instance_id, day, arrival, departure) ==
    InsertRow(DeleteRows(table, RowsAt(table, instance_id, day)),
              AttendanceRow(instance_id, day, arrival, departure))

\* The table after _admin_upsert_shift_plan_impl: both times None removes the
\* row found, else the row found is updated or a new one inserted.
PlanUpserted(table, instance_id, day, arrival, departure) ==
    LET existing == RowsAt(table, instance_id, day) IN
    IF arrival = NullTime /\ departure = NullTime
    THEN DeleteRows(table, existing)
    ELSE InsertRow(DeleteRows(table, existing),
                   AttendanceRow(instance_id, day, arrival, departure))

\* PUT /api/v1/admin/shift-plan
admin_upsert_shift_plan(body) ==
    LET day == parse_yyyy_mm_dd(body.date)
        arrival == parse_hhmm_or_none(body.arrival_time)
        departure == parse_hhmm_or_none(body.departure_time)
        found == IF body.instance_id \in Ids /\ day # NoDate
                 THEN Copies(shift_plan, RowsAt(shift_plan, body.instance_id, day))
                 ELSE 0
        code == IF body.instance_id \notin Ids THEN 404
                ELSE IF day = NoDate THEN 400
                ELSE IF TimeParseError \in {arrival, departure} THEN 400
                ELSE IF found > 1 THEN 500
                ELSE 200
    IN  /\ UNCHANGED <<instances, idsUsed, issued, everRevoked>>
        /\ UnchangedUsers /\ UnchangedOther
        /\ UNCHANGED <<attendance, attendance_locks>>
        /\ resp' = [Answered("shift-plan-put", body.instance_id, code)
                       EXCEPT !.found = found]
        /\ shift_plan' = IF code = 200
                         THEN PlanUpserted(shift_plan, body.instance_id, day,
                                           arrival, departure)
                         ELSE shift_plan

AdminUpsertShiftPlan ==
    \E request \in AdminRequests("PUT") :
        IF AdminGuard(request) # 0 THEN Refused(request)
        ELSE \E id \in 1..idsUsed, body \in DayBodies :
                admin_upsert_shift_plan([instance_id |-> id, date |-> body.date,
                                         arrival_time |-> body.arrival_time,
                                         departure_time |-> body.departure_time])

\* PUT /api/v1/attendance with the bodies of one day.
UpsertAttendanceDay ==
    \E authorization \in Credentials, body \in DayBodies :
        upsert_attendance(authorization, body)

\* One arrival on one day.
ArrivalBodies ==
    [date : {DateText(2026, 2, 20, "-")},
     arrival_time : {HHMM(8, 0)},
     departure_time : {NullTime}]

\* PUT /api/v1/admin/attendance with an arrival on one day.
AdminUpsertAttendanceDay ==
    \E request \in AdminRequests("PUT") :
        IF AdminGuard(request) # 0 THEN Refused(request)
        ELSE \E id \in 1..idsUsed, body \in ArrivalBodies :
                admin_upsert_attendance([instance_id |-> id, date |-> body.date,
                                         arrival_time |-> body.arrival_time,
                                         departure_time |-> body.departure_time])

(* ---------- profile merges: app/api/v1/admin_instances.py ------------- *)

\* The source ids merge_instances keeps: non-empty, not the target, each once.
SourcesOf(target_id, source_ids) ==
    {source_ids[k] : k \in DOMAIN source_ids} \ {target_id, NoId}

\* The rows a set stands for, with instance_id set to the target's.
RECURSIVE Handed(_, _, _)
Handed(table, rows, target_id) ==
    IF rows = {} THEN EmptyBag
    ELSE LET r == CHOOSE x \in rows : TRUE
         IN  [x \in {[r EXCEPT !.instance_id = target_id]} |-> CopiesIn(r, table)]
             (+) Handed(table, rows \ {r}, target_id)

\* The source rows _merge_attendance deletes (the target has a row of their
\* date) and those it hands to the target.  The session does not autoflush,
\* so each SELECT sees the table as it was when the request began.
Dropped(table, sources, target_id) ==
    {r \in BagToSet(table) : /\ r.instance_id \in sources
                             /\ RowsAt(table, target_id, r.date) # {}}
Moving(table, sources, target_id) ==
    {r \in BagToSet(table) : /\ r.instance_id \in sources
                             /\ RowsAt(table, target_id, r.date) = {}}

\* A merge in which the source's row replaces the target's row of the same date.
_merge_attendance_overwrite(table, sources, target_id) ==
    LET mine == {r \in BagToSet(table) : r.instance_id \in sources}
        theirs == {r \in BagToSet(table) :
                      /\ r.instance_id = target_id
                      /\ \E x \in mine : x.date = r.date}
    IN  DeleteRows(table, mine \cup theirs) (+) Handed(table, mine, target_id)

_merge_attendance(table, sources, target_id) ==
    DeleteRows(table, {r \in BagToSet(table) : r.instance_id \in sources})
    (+) Handed(table, Moving(table, sources, target_id), target_id)

\* The same for the shift plans.
_merge_shift_plan(table, sources, target_id) ==
    DeleteRows(table, {r \in BagToSet(table) : r.instance_id \in sources})
    (+) Handed(table, Moving(table, sources, target_id), target_id)

\* The same for the locks: a source lock goes when the target holds one of its
\* month, and is handed to the target otherwise.
_merge_attendance_locks(table, sources, target_id) ==
    LET moving == {r \in BagToSet(table) :
                      /\ r.instance_id \in sources
                      /\ LocksAt(table, target_id, r.year, r.month) = {}}
    IN  DeleteRows(table, {r \in BagToSet(table) : r.instance_id \in sources})
        (+) Handed(table, moving, target_id)

\* A merge that moves the rows and sets profile_instance_id before it finds
\* that an instance is not ACTIVE or is merged already.
merge_instances_mutates_first(target_id, source_ids) ==
    LET sources == SourcesOf(target_id, source_ids)
        merged == _merge_attendance(attendance, sources, target_id)
        plans == _merge_shift_plan(shift_plan, sources, target_id)
        locks == _merge_attendance_locks(attendance_locks, sources, target_id)
        code == IF target_id = NoId \/ sources = {} THEN 400
                ELSE IF target_id \notin Ids THEN 404
                ELSE IF instances[target_id].status # ACTIVE THEN 409
                ELSE IF instances[target_id].profile_instance_id # NoId THEN 409
                ELSE IF \E s \in sources : s \notin Ids THEN 404
                ELSE IF \E s \in sources : instances[s].status # ACTIVE THEN 409
                ELSE IF \E s \in sources :
                            instances[s].profile_instance_id \notin {NoId, target_id}
                THEN 409
                ELSE IF ~uq_attendance_instance_date(merged) THEN 500
                ELSE IF ~uq_shift_plan_instance_date(plans) THEN 500
                ELSE IF ~uq_attendance_lock_instance_month(locks) THEN 500
                ELSE 200
    IN  /\ UNCHANGED <<idsUsed, issued, everRevoked>>
        /\ UnchangedUsers /\ UnchangedOther
        /\ IF code \notin {200, 409}
           THEN /\ resp' = Answered("merge", target_id, code)
                /\ UNCHANGED instances
                /\ UnchangedAttendance
           ELSE /\ resp' = [Answered("merge", target_id, code)
                               EXCEPT !.found = Copies(attendance,
                                                       Dropped(attendance, sources, target_id)),
                                      !.moved = Copies(attendance,
                                                       Moving(attendance, sources, target_id))]
                /\ instances' = [i \in Ids |->
                                    IF i \in sources
                                    THEN [instances[i] EXCEPT !.profile_instance_id = target_id]
                                    ELSE instances[i]]
                /\ attendance' = merged
                /\ shift_plan' = plans
                /\ attendance_locks' = locks

\* POST /api/v1/admin/instances/merge.  db.commit() flushes the moved rows; a
\* row that breaks a unique constraint raises IntegrityError, the transaction
\* is rolled back and the request is answered 500.
merge_instances(target_id, source_ids) ==
    LET sources == SourcesOf(target_id, source_ids)
        merged == _merge_attendance(attendance, sources, target_id)
        plans == _merge_shift_plan(shift_plan, sources, target_id)
        locks == _merge_attendance_locks(attendance_locks, sources, target_id)
        code == IF target_id = NoId \/ sources = {} THEN 400
                ELSE IF target_id \notin Ids THEN 404
                ELSE IF instances[target_id].status # ACTIVE THEN 409
                ELSE IF instances[target_id].profile_instance_id # NoId THEN 409
                ELSE IF \E s \in sources : s \notin Ids THEN 404
                ELSE IF \E s \in sources : instances[s].status # ACTIVE THEN 409
                ELSE IF \E s \in sources :
                            instances[s].profile_instance_id \notin {NoId, target_id}
                THEN 409
                ELSE IF ~uq_attendance_instance_date(merged) THEN 500
                ELSE IF ~uq_shift_plan_instance_date(plans) THEN 500
                ELSE IF ~uq_attendance_lock_instance_month(locks) THEN 500
                ELSE 200
    IN  /\ UNCHANGED <<idsUsed, issued, everRevoked>>
        /\ UnchangedUsers /\ UnchangedOther
        /\ IF code # 200
           THEN /\ resp' = Answered("merge", target_id, code)
                /\ UNCHANGED instances
                /\ UnchangedAttendance
           ELSE /\ resp' = [Answered("merge", target_id, 200)
                               EXCEPT !.found = Copies(attendance,
                                                       Dropped(attendance, sources, target_id)),
                                      !.moved = Copies(attendance,
                                                       Moving(attendance, sources, target_id))]
                /\ instances' = [i \in Ids |->
                                    IF i \in sources
                                    THEN [instances[i] EXCEPT !.profile_instance_id = target_id]
                                    ELSE instances[i]]
                /\ attendance' = merged
                /\ shift_plan' = plans
                /\ attendance_locks' = locks

\* The source lists the admin sends: one id, or two (possibly the same one).
SourceLists ==
    {<<a>> : a \in 1..idsUsed} \cup {<<a, b>> : a \in 1..idsUsed, b \in 1..idsUsed}

MergeInstances ==
    \E request \in AdminRequests("POST") :
        IF AdminGuard(request) # 0 THEN Refused(request)
        ELSE \E target_id \in 1..idsUsed, source_ids \in SourceLists :
                merge_instances(target_id, source_ids)

Next ==
    \/ RegisterInstance
    \/ GetStatus
    \/ ClaimToken
    \/ PublicRegisterInstance
    \/ ClaimInstanceToken
    \/ BearerAuth
    \/ ActivateInstance
    \/ RenameInstance
    \/ RevokeInstance
    \/ DeactivateInstance
    \/ DeleteInstance
    \/ CreateUser
    \/ SendResetLink
    \/ PortalLogin
    \/ PortalReset

Spec == Init /\ [][Next]_vars

(* ------------- the instance lifecycle with its history ---------------- *)

\* The device and admin operations on instance rows, with the rows that were
\* ever REVOKED recorded.
NextHistory ==
    \/ RegisterInstance
    \/ GetStatus
    \/ ClaimToken
    \/ PublicRegisterInstance
    \/ ClaimInstanceToken
    \/ ActivateInstance
    \/ RenameInstance
    \/ RevokeInstance
    \/ DeactivateInstance
    \/ DeleteInstance

SpecHistory == InitHistory /\ [][NextHistory]_vars

(* ------------ claim-token interleaved with other requests ------------ *)

\* claim_token up to its checks: the session has loaded the row (db.get) and
\* found it ACTIVE with a display_name.  Requests that fail a check touch
\* nothing and are covered by the whole-request action.
claim_token_read(instance_id) ==
    /\ inflight = NoFlight
    /\ instance_id \in Ids
    /\ instances[instance_id].status = ACTIVE
    /\ Truthy(instances[instance_id].display_name)
    /\ inflight' = [id |-> instance_id, seen |-> instances[instance_id]]
    /\ UNCHANGED <<instances, idsUsed, issued, everRevoked, resp,
                   csrfReq, csrfRes, now, recording, capacity, refusedPut, writers, resets, cookies>>
    /\ UnchangedUsers /\ UnchangedAttendance

ClaimTokenRead == \E id \in 1..idsUsed : claim_token_read(id)

\* The rest of claim_token: the token is generated on the loaded row and
\* db.commit() flushes an UPDATE of the columns the session changed
\* (token_hash, token_issued_at); status is not among them.
claim_token_commit ==
    LET id == inflight.id
        n == Len(issued) + 1
        once == issue_instance_token_once(inflight.seen, n, now + n)
        done == IF once.token = NoToken
                THEN rotate_instance_token(once.instance, n, now + n)
                ELSE once
    IN  /\ inflight # NoFlight
        /\ id \in Ids
        /\ Len(issued) < MaxTokens
        /\ instances' = Update(instances, id,
                               [instances[id] EXCEPT
                                    !.token_hash = done.instance.token_hash,
                                    !.token_issued_at = done.instance.token_issued_at])
        /\ issued' = Append(issued, id)
        /\ resp' = [Response("claim-token", id, 200)
                       EXCEPT !.token = done.token, !.once = OnceOf(inflight.seen, once)]
        /\ inflight' = NoFlight
        /\ UNCHANGED <<idsUsed, everRevoked, csrfReq, csrfRes, now, recording,
                       capacity, refusedPut, writers, resets, cookies>>
        /\ UnchangedUsers /\ UnchangedAttendance

ClaimTokenCommit == claim_token_commit

NextRace ==
    \/ RegisterInstance
    \/ ActivateInstance
    \/ ClaimTokenRead
    \/ ClaimTokenCommit
    \/ RevokeInstance
    \/ DeactivateInstance
    \/ BearerAuth

SpecRace == Init /\ [][NextRace]_vars

(* ------------------- the CSRF guard on its own ------------------------ *)

\* Any request a client can build reaches the guard; csrfRes is -1 until the
\* guard has run.
InitCsrf ==
    /\ Constructed
    /\ recording = FALSE
    /\ capacity = MaxInstances
    /\ csrfReq \in Requests
    /\ csrfRes = -1

\* The dependency require_csrf runs on the request.
RequireCsrf ==
    /\ csrfRes = -1
    /\ csrfRes' = require_csrf(csrfReq)
    /\ UNCHANGED <<instances, idsUsed, issued, users, reset_tokens, resetsSent,
                   everRevoked, recording, inflight, resp, csrfReq, now,
                   capacity, refusedPut, writers, resets, cookies>>
    /\ UnchangedAttendance

NextCsrf == RequireCsrf

SpecCsrf == InitCsrf /\ [][NextCsrf]_vars

(* ------------------- attendance and month locks ----------------------- *)

\* The admin's side: instances are registered and activated, the admin writes
\* their attendance, locks and unlocks months and merges profiles.
NextAttendance ==
    \/ PublicRegisterInstance
    \/ ActivateInstance
    \/ AdminUpsertAttendance
    \/ LockMonth
    \/ UnlockMonth
    \/ MergeInstances

SpecAttendance == Init /\ [][NextAttendance]_vars

\* The device's side: one device registers, is activated, claims a token and
\* writes and reads its attendance while the admin locks and unlocks months;
\* the history of refused PUTs is recorded.
InitLock == Constructed /\ NoCsrfRun /\ recording = TRUE /\ capacity = MaxLocked

NextLock ==
    \/ PublicRegisterInstance
    \/ ActivateInstance
    \/ ClaimInstanceToken
    \/ UpsertAttendance
    \/ GetMonthAttendance
    \/ LockMonth
    \/ UnlockMonth

SpecLock == InitLock /\ [][NextLock]_vars

(* ------------------- deleting merged instances ------------------------ *)

\* Instances are registered, activated, given tokens, merged and deleted.
NextDelete ==
    \/ PublicRegisterInstance
    \/ ActivateInstance
    \/ ClaimInstanceToken
    \/ MergeInstances
    \/ RevokeInstance
    \/ DeleteInstance

SpecDelete == Init /\ [][NextDelete]_vars

(* ---------------------- password resets over time -------------------- *)

\* Users are created, sent reset links and reset their passwords, possibly
\* side by side, while time passes.
NextReset ==
    \/ CreateUser
    \/ SendResetLink
    \/ PortalResetRead
    \/ PortalResetCommit
    \/ Tick

SpecReset == Init /\ [][NextReset]_vars

(* ------------------------- admin sessions over time ------------------- *)

\* The admin logs in and out and requests arrive with any cookie while time
\* passes.
NextSession ==
    \/ AdminLogin
    \/ AdminLogout
    \/ RequireAdmin
    \/ Tick

SpecSession == Init /\ [][NextSession]_vars

(* ---------------------- shift plan and attendance --------------------- *)

\* One device writes its attendance and the admin its shift plan.
NextShiftPlan ==
    \/ PublicRegisterInstance
    \/ ActivateInstance
    \/ ClaimInstanceToken
    \/ UpsertAttendanceDay
    \/ AdminUpsertShiftPlan

SpecShiftPlan == InitLock /\ [][NextShiftPlan]_vars

(* ------------------------ concurrent upserts -------------------------- *)

\* One device whose attendance PUTs run beside each other.
NextUpsertRace ==
    \/ PublicRegisterInstance
    \/ ActivateInstance
    \/ ClaimInstanceToken
    \/ UpsertAttendanceRead
    \/ UpsertAttendanceCommit
    \/ GetMonthAttendance

SpecUpsertRace == InitLock /\ [][NextUpsertRace]_vars

(* ------------------------- profile merges ----------------------------- *)

\* The same start with room for a third instance row.
InitMerge == Constructed /\ NoCsrfRun /\ recording = FALSE /\ capacity = MaxMerged

NextMerge ==
    \/ PublicRegisterInstance
    \/ ActivateInstance
    \/ MergeInstances
    \/ RevokeInstance
    \/ DeactivateInstance
    \/ DeleteInstance

SpecMerge == InitMerge /\ [][NextMerge]_vars

\* Three instances whose rows of one day the admin writes and merges, and
\* which the admin deletes.
NextMergeRows ==
    \/ PublicRegisterInstance
    \/ ActivateInstance
    \/ AdminUpsertAttendanceDay
    \/ MergeInstances
    \/ DeleteInstance

SpecMergeRows == InitMerge /\ [][NextMergeRows]_vars

(* ------------------------------ claims ------------------------------- *)

\* The last request was a claim-token for a row that exists.
ClaimTokenAnswered == resp.op = "claim-token" /\ resp.id \in Ids

\* C1: a claim-token request for an instance succeeds (returns a token) if and
\* only if the instance is ACTIVE; for PENDING, REVOKED and DEACTIVATED it is
\* rejected with 403 and no token is stored.  (claim-token never changes the
\* status, so the status after the request is the status it met.)
C1_ClaimTokenIffActive ==
    ClaimTokenAnswered =>
        LET inst == instances[resp.id] IN
        /\ (resp.code = 200 /\ resp.token # NoToken) <=> inst.status = ACTIVE
        /\ inst.status # ACTIVE => resp.code = 403 /\ inst.token_hash = NoHash

\* The last request returned a bearer token (claim-token or portal login).
TokenReturned == resp.code = 200 /\ resp.token # NoToken /\ resp.id \in Ids

\* The plaintexts returned to instance id before the latest token was generated.
EarlierTokens(id) ==
    {generate_instance_token(n) : n \in {m \in 1..(Len(issued) - 1) : issued[m] = id}}

\* C2: the plaintext returned by issue_instance_token_once for an instance
\* without a token verifies to that instance; after rotate_instance_token the
\* plaintexts returned before verify to no instance and the new one verifies
\* to the instance.
C2_TokenRoundTrip ==
    TokenReturned =>
        /\ verify_instance_token(instances, resp.token) = resp.id
        /\ resp.once.called /\ resp.once.before = NoHash => resp.token = resp.once.ret
        /\ \A t \in EarlierTokens(resp.id) : verify_instance_token(instances, t) = NoId

\* C2 witness: an instance got its first token from issue_instance_token_once
\* and the latest request rotated it.
C2_Rotated ==
    /\ TokenReturned
    /\ Len(issued) = 2 /\ issued[1] = resp.id /\ issued[2] = resp.id
    /\ resp.token = generate_instance_token(2)
    /\ resp.once.called /\ resp.once.ret = NoToken

\* A claim-token request for instance id, on either router.
ClaimTokenStep(id) == claim_token(id) \/ claim_instance_token(id)

\* The plaintexts returned to instance id so far.
TokensOf(id) == {generate_instance_token(n) : n \in {m \in 1..Len(issued) : issued[m] = id}}

\* C3: scenario ordering.  Registering a new (ANDROID, fingerprint) yields a
\* PENDING row; admin activate of it yields ACTIVE; a following claim-token
\* returns a token starting with "dg_"; after admin revoke the tokens issued
\* before no longer verify and claim-token fails with 403.
C3_Scenario ==
    [][ /\ \A fp \in Fingerprints :
              /\ RowsOf("ANDROID", fp) = {}
              /\ \/ register_instance("ANDROID", fp, "Jana")
                 \/ public_register_instance("ANDROID", fp, "Jana")
              => resp'.code = 200 /\ instances'[resp'.id].status = PENDING
        /\ \A id \in Ids :
              /\ instances[id].status = PENDING /\ activate_instance(id, "Jana")
                 => instances'[id].status = ACTIVE
              /\ instances[id].status = ACTIVE /\ instances[id].display_name = "Jana"
                 /\ ClaimTokenStep(id)
                 => resp'.code = 200 /\ resp'.token.prefix = "dg_"
              /\ revoke_instance(id)
                 => /\ instances'[id].status = REVOKED
                    /\ \A t \in TokensOf(id) : verify_instance_token(instances', t) = NoId
              /\ instances[id].status = REVOKED /\ ClaimTokenStep(id)
                 => resp'.code = 403
      ]_vars

\* C4: once an instance row has had status REVOKED, no sequence of admin and
\* client operations brings that row back to status ACTIVE.
C4_RevokedNeverActive ==
    \A id \in everRevoked \cap Ids : instances[id].status # ACTIVE

\* C5: in every state reached by whole requests, every instance whose status
\* is not ACTIVE has an empty token_hash and an empty token_issued_at.
C5_TokenOnlyWhileActive ==
    \A id \in Ids :
        instances[id].status # ACTIVE =>
            instances[id].token_hash = NoHash /\ instances[id].token_issued_at = 0

\* C5 witness: an instance that was handed a token has left ACTIVE.
C5_LeftActiveAfterToken ==
    \E id \in Ids : /\ instances[id].status \in {REVOKED, DEACTIVATED}
                    /\ TokensOf(id) # {}

\* The numbers of the tokens returned to instance id, and of the issued
\* tokens that verify to it now.
ReturnedTo(id) == {m \in 1..Len(issued) : issued[m] = id}
VerifyingTo(id) ==
    {n \in 1..Len(issued) :
        verify_instance_token(instances, generate_instance_token(n)) = id}
MostRecent(S) == CHOOSE n \in S : \A m \in S : m <= n

IssueOnceOnTokenHolder == resp.once.called /\ resp.once.before # NoHash

\* C7: issue_instance_token_once on an instance that already has a token_hash
\* returns no token and leaves token_hash and token_issued_at as they were, so
\* the token issued before still verifies against the row it returns.
C7_IssueOnceNoOp ==
    IssueOnceOnTokenHolder =>
        /\ resp.once.ret = NoToken
        /\ resp.once.after = resp.once.before
        /\ resp.once.after_at = resp.once.before_at
        /\ \E n \in ReturnedTo(resp.id) \ {Len(issued)} :
              verify_token(generate_instance_token(n), resp.once.after)

\* C7 witness: claim-token met an instance that already held a token.
C7_SecondClaim ==
    /\ IssueOnceOnTokenHolder
    /\ resp.op = "claim-token" /\ resp.code = 200
    /\ resp.once.before_at # 0

\* The rows whose stored hash the token of an Authorization header matches.
Matching(authorization) ==
    IF authorization = NoAuth \/ authorization.scheme # "Bearer"
       \/ authorization.token = NoToken
    THEN {}
    ELSE {i \in Ids : /\ instances[i].token_hash # NoHash
                      /\ instances[i].token_hash[3] = authorization.token}

\* A header that carries a well-formed bearer token.
WellFormed(authorization) ==
    /\ authorization # NoAuth
    /\ authorization.scheme = "Bearer"
    /\ authorization.token # NoToken
    /\ authorization.token.prefix = "dg_"
    /\ authorization.token.len \in 19..256

\* C8: bearer authentication accepts a request only if the presented token
\* verifies to an ACTIVE instance; a missing, malformed or non-matching token
\* gives 401 and a token matching an instance that is not ACTIVE gives 403.
\* Stated for every header a client can send in every reachable state, and
\* for the response of the last authenticated request.
C8_BearerAuth ==
    /\ \A a \in Authorizations :
          LET code == require_instance_auth(instances, a) IN
          /\ ~WellFormed(a) \/ Matching(a) = {} => code = 401
          /\ WellFormed(a) /\ (\E i \in Matching(a) : instances[i].status # ACTIVE)
                => code = 403
          /\ code = 200 <=> /\ WellFormed(a)
                             /\ \E i \in Matching(a) : instances[i].status = ACTIVE
    /\ resp.op = "auth" =>
          /\ resp.code \in {200, 401, 403}
          /\ resp.code = 401 <=> resp.id = NoId
          /\ resp.code = 200 <=> resp.id \in Ids /\ instances[resp.id].status = ACTIVE
          /\ resp.code = 403 <=> resp.id \in Ids /\ instances[resp.id].status # ACTIVE

\* C8 witness: a request whose token matches an instance that is no longer
\* ACTIVE was answered 403.
C8_Forbidden ==
    /\ resp.op = "auth" /\ resp.code = 403
    /\ resp.id \in Ids /\ instances[resp.id].status = REVOKED

\* The guard has run on csrfReq.
CsrfGuardRan == csrfRes # -1

\* The request carries, in its header, mirror cookie or form field, the token
\* of its session (surrounding whitespace is not part of a token).
CarriesSessionToken(request) ==
    /\ ~request.session.empty
    /\ request.session.csrf_token \notin {None, ""}
    /\ \E v \in {request.header, request.cookie, request.form} :
          v # None /\ Strip(v) = request.session.csrf_token

AdminOrPortalDone ==
    resp.code = 200 /\ resp.op \in {"admin", "portal-login", "portal-reset"}

\* C10: every admin or portal endpoint whose method is not GET and that
\* changes state requires a matching CSRF token: none is carried out for a
\* request without one.
C10_StateChangeNeedsCsrf == AdminOrPortalDone => resp.csrf

\* The sources of a merge request and the rows of an instance in a table.
MergedSources(target_id, source_ids) == SourcesOf(target_id, source_ids)
RowsOfInstance(table, instance_id) == {r \in BagToSet(table) : r.instance_id = instance_id}

\* C11: merge invariant.  After a successful merge of sources into a target,
\* for every date that had an attendance row in both a source and the target
\* the target's original row (its arrival and departure values) is kept and
\* the source's row is gone, every source-only row now belongs to the target,
\* and every merged source has profile_instance_id equal to the target's id.
C11_MergeKeepsTarget ==
    [][ resp'.op = "merge" /\ resp'.code = 200 =>
        \A target_id \in {resp'.id}, source_ids \in SourceLists :
            merge_instances(target_id, source_ids) =>
                LET sources == MergedSources(target_id, source_ids) IN
                /\ \A s \in sources :
                      /\ instances'[s].profile_instance_id = target_id
                      /\ RowsOfInstance(attendance', s) = {}
                /\ \A r \in RowsOfInstance(attendance, target_id) :
                      RowsAt(attendance', target_id, r.date) = {r}
                /\ \A s \in sources : \A r \in RowsOfInstance(attendance, s) :
                      RowsAt(attendance, target_id, r.date) = {} =>
                          RowsAt(attendance', target_id, r.date)
                              = {[r EXCEPT !.instance_id = target_id]}
                /\ uq_attendance_instance_date(attendance')
      ]_vars

\* C11 witness: a merge succeeded in which a source row met a target row of
\* its date and another source row was handed to the target.
C11_MergedBothKinds ==
    /\ resp.op = "merge" /\ resp.code = 200
    /\ resp.found >= 1 /\ resp.moved >= 1
    /\ Copies(attendance, RowsOfInstance(attendance, resp.id)) >= 2

\* C12: no merge chains.  For every instance s whose profile_instance_id is
\* set to t, instance t has an empty profile_instance_id.
C12_NoMergeChains ==
    \A s \in Ids :
        LET t == instances[s].profile_instance_id IN
        t # NoId /\ t \in Ids => instances[t].profile_instance_id = NoId

\* C13: every instance whose profile_instance_id is set references an
\* existing instance whose status is ACTIVE, also after the merge target is
\* later revoked, deactivated or deleted.
C13_ProfileIsActive ==
    \A s \in Ids :
        LET t == instances[s].profile_instance_id IN
        t # NoId => t \in Ids /\ instances[t].status = ACTIVE

\* A lock row exists for the month of a day of an instance.
LockExists(locks, instance_id, day) ==
    AttendanceLock(instance_id, day.year, day.month) \in BagToSet(locks)

\* The text is a valid YYYY-MM-DD date / the value is null or a valid HH:MM time.
IsYmd(text) ==
    /\ text.sep = "-"
    /\ text.month \in 1..12
    /\ text.day \in 1..days_in_month(text.year, text.month)
IsTime(value) ==
    \/ value.text = "null"
    \/ value.text = "hh:mm" /\ value.hh \in 0..23 /\ value.mm \in 0..59
WellFormedBody(body) ==
    IsYmd(body.date) /\ IsTime(body.arrival_time) /\ IsTime(body.departure_time)

\* The entry of a row in the body of a month.
DayOut(r) ==
    [date |-> DateText(r.date.year, r.date.month, r.date.day, "-"),
     arrival_time |-> r.arrival_time, departure_time |-> r.departure_time]

\* C14: month-lock scenario.  While a lock exists for (instance, year, month),
\* a well-formed PUT of the instance for a date in that month is answered 423
\* with code ATTENDANCE_MONTH_LOCKED and stores nothing; an unlock removes the
\* lock, after which the same PUT is answered 200 and stores its arrival and
\* departure; a GET of an unlocked month returns the stored values.
C14_MonthLockScenario ==
    [][ /\ resp'.op = "attendance-put" /\ resp'.id # NoId =>
            \A authorization \in Credentials, body \in Bodies :
                upsert_attendance(authorization, body) /\ WellFormedBody(body) =>
                    LET id == resp'.id
                        day == Date(body.date.year, body.date.month, body.date.day)
                    IN  IF LockExists(attendance_locks, id, day)
                        THEN /\ resp'.code = 423
                             /\ resp'.detail = "ATTENDANCE_MONTH_LOCKED"
                             /\ attendance' = attendance
                        ELSE /\ resp'.code = 200
                             /\ RowsAt(attendance', id, day)
                                  = {AttendanceRow(id, day, body.arrival_time,
                                                   body.departure_time)}
        /\ resp'.op = "unlock" /\ resp'.code = 200 =>
            \A year \in YearsSent, month \in MonthsSent :
                unlock_month(resp'.id, year, month) =>
                    AttendanceLock(resp'.id, year, month) \notin BagToSet(attendance_locks')
        /\ resp'.op = "attendance-get" /\ resp'.id # NoId =>
            \A authorization \in Credentials, year \in YearsSent, month \in MonthsSent :
                get_month_attendance(authorization, year, month)
                /\ AttendanceLock(resp'.id, year, month) \notin BagToSet(attendance_locks) =>
                    /\ resp'.code = 200
                    /\ \A r \in RowsOfInstance(attendance, resp'.id) :
                          r.date.year = year /\ r.date.month = month =>
                              DayOut(r) \in resp'.days
      ]_vars

\* C14 witness: a PUT was answered 423, the same PUT was carried out later,
\* and a GET now returns its arrival and departure.
C14_RepeatedAfterUnlock ==
    /\ refusedPut.stage = "repeated"
    /\ resp.op = "attendance-get" /\ resp.code = 200
    /\ resp.id = refusedPut.instance_id
    /\ [date |-> DateText(refusedPut.date.year, refusedPut.date.month,
                          refusedPut.date.day, "-"),
        arrival_time |-> refusedPut.arrival_time,
        departure_time |-> refusedPut.departure_time] \in resp.days

\* C19: an instance PUT of attendance whose date is not a valid YYYY-MM-DD
\* date or whose arrival or departure is not a valid HH:MM time is answered
\* 400 and creates or changes no attendance row.
C19_MalformedPutIs400 ==
    [][ resp'.op = "attendance-put" /\ resp'.id # NoId =>
            \A authorization \in Credentials, body \in Bodies :
                upsert_attendance(authorization, body) /\ ~WellFormedBody(body) =>
                    resp'.code = 400 /\ attendance' = attendance
      ]_vars

\* The rows of the month a lock row names.
LockedRows(table, lock) ==
    {r \in BagToSet(table) : /\ r.instance_id = lock.instance_id
                             /\ r.date.year = lock.year
                             /\ r.date.month = lock.month}

\* C15: while a lock exists for (instance, year, month), no instance upsert,
\* admin upsert or merge creates, changes or deletes an attendance row of
\* that instance in that month.
C15_LockedRowsFrozen ==
    [][ resp'.op \in {"attendance-put", "admin-put", "merge"} =>
            \A lock \in BagToSet(attendance_locks) :
                /\ LockedRows(attendance', lock) = LockedRows(attendance, lock)
                /\ \A r \in LockedRows(attendance, lock) :
                      CopiesIn(r, attendance') = CopiesIn(r, attendance)
      ]_vars

\* C16: lock_month is idempotent and there is at most one lock row for
\* (instance, year, month): a lock request answered 200 leaves exactly one
\* row for its key whether or not one existed, and an unlock of a month that
\* is not locked is answered 200 and changes nothing.
C16_OneLockPerMonth ==
    [][ /\ uq_attendance_lock_instance_month(attendance_locks')
        /\ resp'.op = "lock" /\ resp'.code = 200 =>
              \A year \in YearsSent, month \in MonthsSent :
                  lock_month(resp'.id, year, month) =>
                      /\ CopiesIn(AttendanceLock(resp'.id, year, month),
                                  attendance_locks') = 1
                      /\ \A other \in BagToSet(attendance_locks) \cup
                                      BagToSet(attendance_locks') :
                            other # AttendanceLock(resp'.id, year, month) =>
                                CopiesIn(other, attendance_locks')
                                    = CopiesIn(other, attendance_locks)
        /\ resp'.op = "unlock" =>
              \A year \in YearsSent, month \in MonthsSent :
                  unlock_month(resp'.id, year, month)
                  /\ resp'.id \in Ids
                  /\ AttendanceLock(resp'.id, year, month)
                         \notin BagToSet(attendance_locks) =>
                      /\ resp'.code = 200
                      /\ attendance_locks' = attendance_locks
                      /\ attendance' = attendance
                      /\ instances' = instances
      ]_vars

\* C16 witness: a month that was locked already has been locked again.
C16_LockedTwice ==
    /\ resp.op = "lock" /\ resp.code = 200 /\ resp.found = 1
    /\ \A l \in BagToSet(attendance_locks) : CopiesIn(l, attendance_locks) = 1
    /\ attendance_locks # EmptyBag

\* C18: registration with a (client_type, device_fingerprint) pair and a
\* display name.  When a row of the pair is DEACTIVATED the request is
\* refused and creates nothing; else when a PENDING or ACTIVE row of the pair
\* exists its id is returned and no row is created; otherwise exactly one new
\* row, with status PENDING, is created.  For both register_instance handlers.
C18_RegistrationReuse ==
    [][ resp'.op = "register" =>
            \A ct \in DeviceTypes, fp \in Fingerprints, name \in {"Jana"} :
                \/ register_instance(ct, fp, name)
                \/ public_register_instance(ct, fp, name)
                => LET rows == RowsOf(ct, Strip(fp))
                       reusable == {i \in rows : instances[i].status \in {PENDING, ACTIVE}}
                   IN  IF \E i \in rows : instances[i].status = DEACTIVATED
                       THEN /\ resp'.code >= 400
                            /\ DOMAIN instances' = Ids
                       ELSE IF reusable # {}
                       THEN /\ resp'.code = 200
                            /\ resp'.id \in reusable
                            /\ DOMAIN instances' = Ids
                       ELSE /\ resp'.code = 200
                            /\ DOMAIN instances' = Ids \cup {resp'.id}
                            /\ resp'.id \notin Ids
                            /\ instances'[resp'.id].status = PENDING
                            /\ \A i \in Ids : instances'[i] = instances[i]
      ]_vars

\* The Authorization header that carries the n-th generated token.
BearerOf(n) == [scheme |-> "Bearer", token |-> generate_instance_token(n)]

\* C20: an admin deactivate leaves the instance DEACTIVATED with empty token
\* columns, and every token issued to it so far is rejected; no later step,
\* a re-activation included, makes a token issued before valid again: a token
\* whose instance holds no hash is rejected after every step.
C20_DeactivateClearsTokens ==
    [][ /\ resp'.op = "admin" /\ resp'.code = 200 =>
            \A id \in Ids :
                deactivate_instance(id) =>
                    /\ instances'[id].status = DEACTIVATED
                    /\ instances'[id].token_hash = NoHash
                    /\ instances'[id].token_issued_at = 0
                    /\ \A n \in 1..Len(issued) :
                          issued[n] = id =>
                              require_instance_auth(instances', BearerOf(n)) \in {401, 403}
        /\ \A n \in 1..Len(issued) :
              issued[n] \notin Ids \/ instances[issued[n]].token_hash = NoHash =>
                  require_instance_auth(instances', BearerOf(n)) \in {401, 403}
      ]_vars

\* C20 witness: an instance that was given a token, deactivated and activated
\* again is ACTIVE without a stored hash, and its old token is rejected.
C20_ReactivatedWithoutToken ==
    /\ resp.op = "admin" /\ resp.code = 200
    /\ \E n \in 1..Len(issued) :
          /\ issued[n] \in Ids
          /\ instances[issued[n]].status = ACTIVE
          /\ instances[issued[n]].token_hash = NoHash
          /\ require_instance_auth(instances, BearerOf(n)) = 401

\* C17: there is at most one attendance row per (instance_id, date) in every
\* reachable state, also when upserts for one (instance_id, date) run beside
\* each other with their read and write steps interleaved: every such
\* request is answered 200 and, when it has committed, the one row of its
\* key holds its arrival and departure.
C17_LastCommitWins ==
    [][ /\ uq_attendance_instance_date(attendance')
        /\ Len(writers') < Len(writers) =>
              \A k \in 1..Len(writers) :
                  upsert_attendance_commit(k) =>
                      /\ resp'.code = 200
                      /\ RowsAt(attendance', writers[k].instance_id, writers[k].date)
                            = {AttendanceRow(writers[k].instance_id, writers[k].date,
                                             writers[k].arrival_time,
                                             writers[k].departure_time)}
      ]_vars

\* The instance rows a delete of the rows gone leaves: every other row.
\* With references cleared, a profile_instance_id that named a deleted row
\* is NULL afterwards.
RowsLeft(gone, cleared) ==
    [i \in Ids \ gone |->
        IF cleared /\ instances[i].profile_instance_id \in gone
        THEN [instances[i] EXCEPT !.profile_instance_id = NoId]
        ELSE instances[i]]

DeleteRemoves(cleared) ==
    resp'.op = "admin" /\ resp'.code = 200 =>
        /\ \A id \in Ids :
              delete_instance(id) =>
                  /\ instances' = RowsLeft({id}, cleared)
                  /\ \A n \in 1..Len(issued) :
                        verify_instance_token(instances', generate_instance_token(n)) # id
        /\ delete_instance(PendingPath) =>
              instances' = RowsLeft({i \in Ids : instances[i].status = PENDING}, cleared)

\* C21 as stated: deleting an instance by id removes that row, no issued
\* token verifies to it, and every other instance row is unchanged; the bulk
\* delete removes every PENDING row and leaves every other row unchanged.
C21_DeleteExact == [][DeleteRemoves(FALSE)]_vars

\* C21 amended: as above, except that a remaining row whose
\* profile_instance_id named a deleted row has it set to NULL.
C21_DeleteClearsReferences == [][DeleteRemoves(TRUE)]_vars

\* C21 witness: an instance that had been given a token has been deleted
\* and another instance row is left.
C21_DeletedWithToken ==
    /\ resp.op = "admin" /\ resp.code = 200
    /\ \E n \in 1..Len(issued) : issued[n] \notin Ids
    /\ Ids # {}

\* Both times of a body are null (a blank string is read as null).
BothNull(body) ==
    /\ body.arrival_time \in {NullTime, BlankTime}
    /\ body.departure_time \in {NullTime, BlankTime}

\* C22: a shift-plan upsert with both times null, answered 200, leaves no
\* shift-plan row for its (instance, date); an attendance upsert with both
\* times null, answered 200, leaves exactly one attendance row for its
\* (instance, date), with both times null.
C22_UpsertAsymmetry ==
    [][ /\ resp'.op = "shift-plan-put" /\ resp'.code = 200 =>
            \A body \in DayBodies :
                admin_upsert_shift_plan([instance_id |-> resp'.id, date |-> body.date,
                                         arrival_time |-> body.arrival_time,
                                         departure_time |-> body.departure_time])
                /\ BothNull(body) =>
                    RowsAt(shift_plan', resp'.id,
                           Date(body.date.year, body.date.month, body.date.day)) = {}
        /\ resp'.op = "attendance-put" /\ resp'.code = 200 =>
            \A authorization \in Credentials, body \in DayBodies :
                upsert_attendance(authorization, body) /\ BothNull(body) =>
                    LET day == Date(body.date.year, body.date.month, body.date.day)
                        row == AttendanceRow(resp'.id, day, NullTime, NullTime)
                    IN  /\ RowsAt(attendance', resp'.id, day) = {row}
                        /\ CopiesIn(row, attendance') = 1
      ]_vars

\* C22 witness: a shift-plan row has been removed by an upsert with both
\* times null while the attendance row of the same day stands with null times.
C22_PlanGoneAttendanceKept ==
    /\ resp.op = "shift-plan-put" /\ resp.code = 200 /\ resp.found = 1
    /\ shift_plan = EmptyBag
    /\ \E r \in BagToSet(attendance) :
          /\ r.instance_id = resp.id
          /\ r.arrival_time = NullTime /\ r.departure_time = NullTime

\* C23: a reset token leads to at most one successful reset and to none
\* once expired: a reset request is answered 200 only if, when it is carried
\* out, the row of its token is unused and was unexpired when the request
\* arrived; a request answered 400 leaves every password hash and token row
\* as it was.  For requests that run side by side as well.
C23_ResetTokenOnce ==
    [][ /\ Len(resets') < Len(resets) =>
            \A k \in 1..Len(resets) :
                portal_reset_commit(k) =>
                    \E r \in reset_tokens :
                        /\ r.token_hash = sha256(resets[k].raw_token)
                        /\ r.used_at = 0
                        /\ r.expires_at > resets[k].at
        /\ resp'.op = "portal-reset" /\ resp'.code = 400 =>
            /\ users' = users
            /\ reset_tokens' = reset_tokens
      ]_vars

\* C26: the CSRF guard takes the provided token from the X-CSRF-Token header
\* first, from the mirror cookie only when the header is absent and from the
\* form field only when both are absent: a checked request whose header is
\* non-empty and is not the session's token is rejected, whatever the mirror
\* cookie and the form field hold.
C26_HeaderFirst ==
    /\ CsrfGuardRan
    /\ csrfReq.method \notin SafeMethods
    /\ csrfReq.header \notin {None, ""}
    /\ Strip(csrfReq.header) # csrfReq.session.csrf_token
    => csrfRes = 403

\* A request has just been answered by require_admin.
AdminChecked == resp'.op = "require-admin" /\ now' = now

\* The MAC of the cookie verifies under the session secret, its username is
\* non-empty and it was issued at most max_age_seconds before the given time.
ValidCookie(raw, time) ==
    /\ raw.text = "dotted"
    /\ raw.sig.mac = "hs256"
    /\ raw.sig.payload = raw.payload /\ raw.sig.secret = session_secret
    /\ raw.payload.json = "object"
    /\ raw.payload.u # ""
    /\ Seconds(time - raw.payload.iat) <= session_max_age_seconds

\* C25: validating an admin session cookie never raises: whatever the cookie
\* value, a request behind require_admin is answered 200 or 401, never by the
\* handler of unhandled exceptions.
C25_ValidationNeverRaises ==
    resp.op = "require-admin" => resp.code \in {200, 401}

\* C24: a request behind require_admin is let through exactly when its cookie
\* is valid (MAC, non-empty username, age); in every other case it is
\* answered 401.
C24_CookieAuthenticates ==
    [][AdminChecked =>
          IF ValidCookie(cookies'.presented, now) THEN resp'.code = 200
          ELSE resp'.code = 401]_vars

C27_NoTokenOnceInactive ==
    inflight = NoFlight =>
        \A id \in Ids :
            instances[id].status \in {REVOKED, DEACTIVATED} =>
                instances[id].token_hash = NoHash

\* The dates of which two different sources each hold an attendance row and
\* the target holds none.
SharedDates(target_id, sources) ==
    {r.date : r \in {x \in BagToSet(attendance) :
                        /\ x.instance_id \in sources
                        /\ RowsAt(attendance, target_id, x.date) = {}
                        /\ \E y \in BagToSet(attendance) :
                              /\ y.instance_id \in sources \ {x.instance_id}
                              /\ y.date = x.date}}

\* C28: a merge that passes its checks and has two or more sources that each
\* hold an attendance row of a date the target lacks is answered 200 and
\* leaves the target with exactly one row of that date.
C28_SharedDateMerged ==
    [][resp'.op = "merge" /\ resp'.code \notin {400, 404, 409} =>
          \A target_id \in 1..idsUsed, source_ids \in SourceLists :
              /\ merge_instances(target_id, source_ids)
              /\ SharedDates(target_id, SourcesOf(target_id, source_ids)) # {}
              => /\ resp'.code = 200
                 /\ \A d \in SharedDates(target_id, SourcesOf(target_id, source_ids)) :
                        Copies(attendance', RowsAt(attendance', target_id, d)) = 1
      ]_vars

\* C29: a merge that is answered 400, 404 or 409 changes nothing: every
\* instance row, with its profile_instance_id, and every attendance,
\* shift-plan and lock row is as it was.
C29_RejectedMergeChangesNothing ==
    [][resp'.op = "merge" /\ resp'.code \in {400, 404, 409} =>
          /\ instances' = instances
          /\ attendance' = attendance
          /\ shift_plan' = shift_plan
          /\ attendance_locks' = attendance_locks]_vars

\* A merge has been answered 409 while an unmerged instance other than the
\* target holds an attendance row.
C29_RejectedWithRows ==
    /\ resp.op = "merge" /\ resp.code = 409
    /\ \E r \in BagToSet(attendance) :
          /\ r.instance_id # resp.id
          /\ instances[r.instance_id].profile_instance_id = NoId

====
